---------------------------- MODULE Spec2Model ----------------------------
(***************************************************************************)
(* A model of the go-bencode decode path: the byte-at-a-time scanner, the  *)
(* validator, the one-shot Unmarshal binder and the streaming Decoder.     *)
(*                                                                         *)
(* Bytes are one-character strings, byte slices are sequences of them.     *)
(* Go errors are records with a "kind" field; the nil error is NoErr.      *)
(* A Go panic is the pseudo-opcode / result "panic".                       *)
(***************************************************************************)
EXTENDS Integers, Sequences, FiniteSets, TLC

VARIABLES
    op,         \* the operation last applied: "none", "Valid", "Unmarshal", "Decode", "Read"
    arg,        \* what the input was built from (a string body, a literal, pairs, values)
    data,       \* the byte slice handed to Valid / Unmarshal, or what the source delivers
    dst,        \* the destination handed to Unmarshal / Decode (before the call)
    ret,        \* what Valid / Unmarshal returned (and the destination afterwards)
    decoder,    \* a streaming Decoder with its source, its call in progress and its history
    reference,  \* a second Decoder over the same stream, fed in a single read
    unicode     \* unicode.Version of the toolchain the program was built with

vars == <<op, arg, data, dst, ret, decoder, reference, unicode>>

\* the Unicode versions of the toolchains: "13.0.0" in Go 1.16 to 1.20,
\* "15.0.0" in Go 1.21 and later
UnicodeVersions == {"13.0.0", "15.0.0"}

-----------------------------------------------------------------------------
(* Bytes and decimal numerals *)

Digits == {"0", "1", "2", "3", "4", "5", "6", "7", "8", "9"}

NonZeroDigits == Digits \ {"0"}

DigitVal(c) ==
    CASE c = "0" -> 0 [] c = "1" -> 1 [] c = "2" -> 2 [] c = "3" -> 3
      [] c = "4" -> 4 [] c = "5" -> 5 [] c = "6" -> 6 [] c = "7" -> 7
      [] c = "8" -> 8 [] c = "9" -> 9

\* the 256 byte values: printable ASCII as itself; any other byte (and the quote, backslash and backquote) as xNN
Chr ==
    <<
      "x00", "x01", "x02", "x03", "x04", "x05", "x06", "x07", "x08", "x09", "x0A", "x0B",
      "x0C", "x0D", "x0E", "x0F", "x10", "x11", "x12", "x13", "x14", "x15", "x16", "x17",
      "x18", "x19", "x1A", "x1B", "x1C", "x1D", "x1E", "x1F", " ", "!", "x22", "#",
      "$", "%", "&", "'", "(", ")", "*", "+", ",", "-", ".", "/",
      "0", "1", "2", "3", "4", "5", "6", "7", "8", "9", ":", ";",
      "<", "=", ">", "?", "@", "A", "B", "C", "D", "E", "F", "G",
      "H", "I", "J", "K", "L", "M", "N", "O", "P", "Q", "R", "S",
      "T", "U", "V", "W", "X", "Y", "Z", "[", "x5C", "]", "^", "_",
      "x60", "a", "b", "c", "d", "e", "f", "g", "h", "i", "j", "k",
      "l", "m", "n", "o", "p", "q", "r", "s", "t", "u", "v", "w",
      "x", "y", "z", "{", "|", "}", "~", "x7F", "x80", "x81", "x82", "x83",
      "x84", "x85", "x86", "x87", "x88", "x89", "x8A", "x8B", "x8C", "x8D", "x8E", "x8F",
      "x90", "x91", "x92", "x93", "x94", "x95", "x96", "x97", "x98", "x99", "x9A", "x9B",
      "x9C", "x9D", "x9E", "x9F", "xA0", "xA1", "xA2", "xA3", "xA4", "xA5", "xA6", "xA7",
      "xA8", "xA9", "xAA", "xAB", "xAC", "xAD", "xAE", "xAF", "xB0", "xB1", "xB2", "xB3",
      "xB4", "xB5", "xB6", "xB7", "xB8", "xB9", "xBA", "xBB", "xBC", "xBD", "xBE", "xBF",
      "xC0", "xC1", "xC2", "xC3", "xC4", "xC5", "xC6", "xC7", "xC8", "xC9", "xCA", "xCB",
      "xCC", "xCD", "xCE", "xCF", "xD0", "xD1", "xD2", "xD3", "xD4", "xD5", "xD6", "xD7",
      "xD8", "xD9", "xDA", "xDB", "xDC", "xDD", "xDE", "xDF", "xE0", "xE1", "xE2", "xE3",
      "xE4", "xE5", "xE6", "xE7", "xE8", "xE9", "xEA", "xEB", "xEC", "xED", "xEE", "xEF",
      "xF0", "xF1", "xF2", "xF3", "xF4", "xF5", "xF6", "xF7", "xF8", "xF9", "xFA", "xFB",
      "xFC", "xFD", "xFE", "xFF"
    >>

\* the numeric value of a byte
Ord(c) == (CHOOSE n \in 1..256 : Chr[n] = c) - 1

RECURSIVE StripZeros(_)
StripZeros(ds) ==
    IF Len(ds) > 1 /\ ds[1] = "0" THEN StripZeros(Tail(ds)) ELSE ds

\* lexicographic "less than" of two digit runs of the same length
DigitsLess(a, b) ==
    \E i \in 1..Len(a) :
        /\ SubSeq(a, 1, i - 1) = SubSeq(b, 1, i - 1)
        /\ DigitVal(a[i]) < DigitVal(b[i])

\* a < b for two unsigned decimal numerals
DecLess(a, b) ==
    LET x == StripZeros(a)
        y == StripZeros(b)
    IN  IF Len(x) # Len(y) THEN Len(x) < Len(y) ELSE DigitsLess(x, y)

RECURSIVE DecVal(_)
DecVal(ds) ==
    IF ds = <<>> THEN 0 ELSE DecVal(SubSeq(ds, 1, Len(ds) - 1)) * 10 + DigitVal(ds[Len(ds)])

\* 2^k as a decimal numeral
Pow2Digits(k) ==
    CASE k = 7 -> <<"1","2","8">>
      [] k = 8 -> <<"2","5","6">>
      [] k = 15 -> <<"3","2","7","6","8">>
      [] k = 16 -> <<"6","5","5","3","6">>
      [] k = 24 -> <<"1","6","7","7","7","2","1","6">>
      [] k = 31 -> <<"2","1","4","7","4","8","3","6","4","8">>
      [] k = 32 -> <<"4","2","9","4","9","6","7","2","9","6">>
      [] k = 53 -> <<"9","0","0","7","1","9","9","2","5","4","7","4","0","9","9","2">>
      [] k = 63 -> <<"9","2","2","3","3","7","2","0","3","6","8","5","4","7","7","5","8","0","8">>
      [] k = 64 -> <<"1","8","4","4","6","7","4","4","0","7","3","7","0","9","5","5","1","6","1","6">>

\* a value computed once and named in what follows: F applied to x
With(x, F(_)) == F(x)
-----------------------------------------------------------------------------
(* Errors *)

NoErr == [kind |-> "nil"]

SyntaxError(msg, offset) == [kind |-> "SyntaxError", msg |-> msg, Offset |-> offset]

NumError == [kind |-> "NumError"]

ErrEOF == [kind |-> "io.EOF"]

ErrUnexpectedEOF == [kind |-> "io.ErrUnexpectedEOF"]

ErrRead == [kind |-> "ReadError"]

-----------------------------------------------------------------------------
(* The scanner *)

\* strconv.ParseUint(string(digits), 10, 64) on a run of decimal digits
ParseUint(ds) ==
    IF ds = <<>> \/ ~DecLess(ds, Pow2Digits(64))
    THEN [ok |-> FALSE, n |-> 0]
    ELSE [ok |-> TRUE, n |-> DecVal(ds)]

\* the zero value of the scanner struct
ZeroScanner ==
    [step |-> "nil", parseState |-> <<>>, endTop |-> FALSE, err |-> NoErr,
     bytes |-> 0, string |-> 0, digits |-> <<>>]

reset(s) ==
    [s EXCEPT !.step = "sv", !.parseState = <<>>, !.err = NoErr,
              !.endTop = FALSE, !.digits = <<>>]

error(s, c, context) ==
    [s  |-> [s EXCEPT !.step = "stateError",
                      !.err = SyntaxError(<<"invalid character", c, context>>, s.bytes)],
     op |-> "scanError"]

stateError(s, c) == [s |-> s, op |-> "scanError"]

\* eof deciding by the frame stack instead of the end flag
eofOnEmptyStack(s) ==
    IF s.err # NoErr THEN [s |-> s, op |-> "scanError"]
    ELSE IF s.parseState = <<>> THEN [s |-> s, op |-> "scanEnd"]
    ELSE [s  |-> [s EXCEPT !.err = SyntaxError(<<"unexpected end of Bencode input">>, s.bytes)],
          op |-> "scanError"]

eof(s) ==
    IF s.err # NoErr THEN [s |-> s, op |-> "scanError"]
    ELSE IF s.endTop THEN [s |-> s, op |-> "scanEnd"]
    ELSE [s  |-> [s EXCEPT !.err = SyntaxError(<<"unexpected end of Bencode input">>, s.bytes)],
          op |-> "scanError"]

pushParseState(s, p) == [s EXCEPT !.parseState = Append(@, p)]

popParseState(s) ==
    LET n == Len(s.parseState) - 1
    IN  IF n = 0
        THEN [s EXCEPT !.parseState = <<>>, !.step = "stateEndTop", !.endTop = TRUE]
        ELSE [s EXCEPT !.parseState = SubSeq(@, 1, n), !.step = "se"]

\* an end state that rejects every further byte
stateEndTopStrict(s, c) == error(s, c, "after top-level value")

stateEndTop(s, c) == [s |-> s, op |-> "scanEnd"]

beginString(s, c, st) ==
    [s  |-> [pushParseState(s, "parseStringLength")
                EXCEPT !.step = st, !.digits = Append(s.digits, c)],
     op |-> "scanBeginString"]

sv(s, c) ==
    CASE c = "d" -> [s |-> [pushParseState(s, "parseDictionaryKey") EXCEPT !.step = "sd"],
                     op |-> "scanBeginDictionary"]
      [] c = "l" -> [s |-> [pushParseState(s, "parseListValue") EXCEPT !.step = "sl"],
                     op |-> "scanBeginList"]
      [] c = "i" -> [s |-> [pushParseState(s, "parseInteger") EXCEPT !.step = "si"],
                     op |-> "scanBeginInteger"]
      [] c = "0" -> beginString(s, c, "ssl0")
      [] c \in NonZeroDigits -> beginString(s, c, "ssl")
      [] OTHER -> error(s, c, "looking for value")

sd(s, c) ==
    CASE c = "e" -> [s |-> popParseState(s), op |-> "scanEndDictionary"]
      [] c = "0" -> beginString(s, c, "ssl0")
      [] c \in NonZeroDigits -> beginString(s, c, "ssl")
      [] OTHER -> error(s, c, "looking for string length")

ssle(s, c) ==
    IF s.string = 0
    THEN LET p  == ParseUint(s.digits)
             s1 == [s EXCEPT !.digits = <<>>]
         IN  IF ~p.ok
             THEN [s |-> [s1 EXCEPT !.err = NumError, !.step = "stateError"],
                   op |-> "scanError"]
             ELSE LET s2 == [s1 EXCEPT !.string = p.n,
                                       !.parseState[Len(s.parseState)] = "parseString",
                                       !.step = "ssf"]
                  IN  IF p.n = 0
                      THEN [s |-> popParseState(s2), op |-> "scanString"]
                      ELSE [s |-> s2, op |-> "scanContinue"]
    ELSE [s |-> s, op |-> "panic"]

ssl0(s, c) ==
    IF c = ":" THEN ssle(s, c)
    ELSE error(s, c, "looking for string length delimiter")

ssl(s, c) ==
    IF c = ":" THEN ssle(s, c)
    ELSE IF c \in Digits
    THEN [s |-> [s EXCEPT !.digits = Append(@, c)], op |-> "scanContinue"]
    ELSE error(s, c, "looking for string length digit")

\* s.string is a uint64: the decrement wraps
DecString(s) == [s EXCEPT !.string = IF @ = 0 THEN -1 ELSE @ - 1]

ssf(s, c) ==
    LET s1 == DecString(s)
    IN  IF s1.string = 0
        THEN [s |-> popParseState(s1), op |-> "scanString"]
        ELSE [s |-> [s1 EXCEPT !.step = "ss"], op |-> "scanString"]

ss(s, c) ==
    LET s1 == DecString(s)
    IN  IF s1.string = 0
        THEN [s |-> popParseState(s1), op |-> "scanContinue"]
        ELSE [s |-> s1, op |-> "scanContinue"]

sl(s, c) ==
    IF c = "e" THEN [s |-> popParseState(s), op |-> "scanEndList"]
    ELSE sv(s, c)

se(s, c) ==
    LET n == Len(s.parseState)
    IN  IF n = 0
        THEN [s |-> [s EXCEPT !.step = "stateEndTop", !.endTop = TRUE], op |-> "scanEnd"]
        ELSE LET ps == s.parseState[n]
             IN  CASE ps = "parseString" -> [s |-> s, op |-> "panic"]
                   [] ps = "parseDictionaryKey" ->
                        sv([s EXCEPT !.parseState[n] = "parseDictionaryValue"], c)
                   [] ps = "parseDictionaryValue" ->
                        sd([s EXCEPT !.parseState[n] = "parseDictionaryKey"], c)
                   [] ps = "parseListValue" -> sl(s, c)
                   [] OTHER -> error(s, c, "DNE")

si(s, c) ==
    CASE c = "-" -> [s |-> [s EXCEPT !.step = "sin"], op |-> "scanInteger"]
      [] c = "0" -> [s |-> [s EXCEPT !.step = "si0"], op |-> "scanInteger"]
      [] c \in NonZeroDigits -> [s |-> [s EXCEPT !.step = "sil"], op |-> "scanInteger"]
      [] OTHER -> error(s, c, "looking for integer")

sin(s, c) ==
    CASE c = "0" -> error(s, c, "negative zero not allowed")
      [] c \in NonZeroDigits -> [s |-> [s EXCEPT !.step = "sil"], op |-> "scanContinue"]
      [] OTHER -> error(s, c, "looking for integer")

si0(s, c) ==
    IF c = "e" THEN [s |-> popParseState(s), op |-> "scanEndInteger"]
    ELSE error(s, c, "leading zeroes not allowed")

sil(s, c) ==
    IF c = "e" THEN [s |-> popParseState(s), op |-> "scanEndInteger"]
    ELSE IF c \in Digits THEN [s |-> s, op |-> "scanContinue"]
    ELSE error(s, c, "looking for integer")

\* s.step(s, c): the call through the scanner's current transition function
step(s, c) ==
    CASE s.step = "sv"          -> sv(s, c)
      [] s.step = "sd"          -> sd(s, c)
      [] s.step = "ssl0"        -> ssl0(s, c)
      [] s.step = "ssl"         -> ssl(s, c)
      [] s.step = "ssf"         -> ssf(s, c)
      [] s.step = "ss"          -> ss(s, c)
      [] s.step = "se"          -> se(s, c)
      [] s.step = "sl"          -> sl(s, c)
      [] s.step = "si"          -> si(s, c)
      [] s.step = "sin"         -> sin(s, c)
      [] s.step = "si0"         -> si0(s, c)
      [] s.step = "sil"         -> sil(s, c)
      [] s.step = "stateError"  -> stateError(s, c)
      [] s.step = "stateEndTop" -> stateEndTop(s, c)
      [] OTHER                  -> [s |-> s, op |-> "panic"]

-----------------------------------------------------------------------------
(* Valid / checkValid *)

\* the loop of checkValid from byte i on; returns the scanner and the error
RECURSIVE checkValidLoop(_, _, _)
checkValidLoop(scan, bs, i) ==
    IF i > Len(bs)
    THEN With(eof(scan), LAMBDA r :
             [scan |-> r.s, err |-> IF r.op = "scanError" THEN r.s.err ELSE NoErr,
              panic |-> FALSE])
    ELSE With(step([scan EXCEPT !.bytes = @ + 1], bs[i]), LAMBDA r :
             IF r.op = "panic" THEN [scan |-> r.s, err |-> NoErr, panic |-> TRUE]
             ELSE IF r.op = "scanError" THEN [scan |-> r.s, err |-> r.s.err, panic |-> FALSE]
             ELSE checkValidLoop(r.s, bs, i + 1))

checkValid(bs, scan) == checkValidLoop(reset(scan), bs, 1)

Valid(bs) ==
    With(checkValid(bs, ZeroScanner), LAMBDA r : ~r.panic /\ r.err = NoErr)

-----------------------------------------------------------------------------
(* Go types and values as the binder sees them through reflection.          *)
(*                                                                           *)
(* A type is a record with a "kind" (the reflect.Kind); integers are kept    *)
(* as canonical decimal numerals (a sequence of digit bytes, "-" first when  *)
(* negative) so that every width up to 64 bits is exact.  Pointer-typed      *)
(* fields and elements are not modelled: the only pointer is the top-level   *)
(* destination.                                                              *)

SignedKinds == {"Int", "Int8", "Int16", "Int32", "Int64"}

UnsignedKinds == {"Uint", "Uint8", "Uint16", "Uint32", "Uint64", "Uintptr"}

FloatKinds == {"Float32", "Float64"}

\* the size in bits of a numeric kind (int, uint and uintptr are 64 bits wide)
Bits(kind) ==
    CASE kind \in {"Int8", "Uint8"} -> 8
      [] kind \in {"Int16", "Uint16"} -> 16
      [] kind \in {"Int32", "Uint32", "Float32"} -> 32
      [] OTHER -> 64

Basic(kind) == [kind |-> kind]

\* an interface type with that many methods (interface{} has none)
InterfaceOf(numMethod) == [kind |-> "Interface", numMethod |-> numMethod]

SliceOf(elem) == [kind |-> "Slice", elem |-> elem]

ArrayOf(elem, n) == [kind |-> "Array", elem |-> elem, len |-> n]

MapOf(key, elem) == [kind |-> "Map", key |-> key, elem |-> elem]

\* a declared field of a struct type (reflect.StructField)
StructField(name, tag, typ, anonymous, exported) ==
    [Name |-> name, Tag |-> tag, Type |-> typ, Anonymous |-> anonymous, Exported |-> exported]

StructOf(name, fields) == [kind |-> "Struct", name |-> name, fields |-> fields]

NoType == [kind |-> "Invalid"]

\* reflect.Zero(t)
RECURSIVE Zero(_)
Zero(t) ==
    CASE t.kind \in SignedKinds \cup UnsignedKinds \cup FloatKinds -> <<"0">>
      [] t.kind = "String" -> <<>>
      [] t.kind = "Bool" -> FALSE
      [] t.kind = "Interface" -> [dyn |-> "nil", val |-> <<>>]
      [] t.kind = "Slice" -> [nil |-> TRUE, arr |-> <<>>, len |-> 0]
      [] t.kind = "Array" -> [i \in 1..t.len |-> Zero(t.elem)]
      [] t.kind = "Map" -> [nil |-> TRUE, m |-> <<>>]
      [] t.kind = "Struct" -> [i \in 1..Len(t.fields) |-> Zero(t.fields[i].Type)]

\* a reflect.Value: a type and the value stored at that location
Val(t, v) == [t |-> t, v |-> v]

\* the zero reflect.Value{}
Invalid == [t |-> NoType, v |-> <<>>]

IsValid(tv) == tv.t.kind # "Invalid"

\* indirect(v, false) on a value that is not a pointer and holds no pointer
indirect(tv) == tv

-----------------------------------------------------------------------------
(* Field resolution: typeFields, dominantField, cachedTypeFields *)

\* unicode.Letter of the toolchain: the ranges <<lo, hi>> of the letters
\* (categories Lu, Ll, Lt, Lm, Lo) of Unicode 13.0.0 (Go 1.16 to 1.20) and of
\* Unicode 15.0.0 (Go 1.21 and later)
LetterRanges(version) ==
    IF version = "13.0.0"
    THEN
      <<<<65, 90>>, <<97, 122>>, <<170, 170>>, <<181, 181>>, <<186, 186>>, <<192, 214>>,
        <<216, 246>>, <<248, 705>>, <<710, 721>>, <<736, 740>>, <<748, 748>>,
        <<750, 750>>, <<880, 884>>, <<886, 887>>, <<890, 893>>, <<895, 895>>,
        <<902, 902>>, <<904, 906>>, <<908, 908>>, <<910, 929>>, <<931, 1013>>,
        <<1015, 1153>>, <<1162, 1327>>, <<1329, 1366>>, <<1369, 1369>>, <<1376, 1416>>,
        <<1488, 1514>>, <<1519, 1522>>, <<1568, 1610>>, <<1646, 1647>>, <<1649, 1747>>,
        <<1749, 1749>>, <<1765, 1766>>, <<1774, 1775>>, <<1786, 1788>>, <<1791, 1791>>,
        <<1808, 1808>>, <<1810, 1839>>, <<1869, 1957>>, <<1969, 1969>>, <<1994, 2026>>,
        <<2036, 2037>>, <<2042, 2042>>, <<2048, 2069>>, <<2074, 2074>>, <<2084, 2084>>,
        <<2088, 2088>>, <<2112, 2136>>, <<2144, 2154>>, <<2208, 2228>>, <<2230, 2247>>,
        <<2308, 2361>>, <<2365, 2365>>, <<2384, 2384>>, <<2392, 2401>>, <<2417, 2432>>,
        <<2437, 2444>>, <<2447, 2448>>, <<2451, 2472>>, <<2474, 2480>>, <<2482, 2482>>,
        <<2486, 2489>>, <<2493, 2493>>, <<2510, 2510>>, <<2524, 2525>>, <<2527, 2529>>,
        <<2544, 2545>>, <<2556, 2556>>, <<2565, 2570>>, <<2575, 2576>>, <<2579, 2600>>,
        <<2602, 2608>>, <<2610, 2611>>, <<2613, 2614>>, <<2616, 2617>>, <<2649, 2652>>,
        <<2654, 2654>>, <<2674, 2676>>, <<2693, 2701>>, <<2703, 2705>>, <<2707, 2728>>,
        <<2730, 2736>>, <<2738, 2739>>, <<2741, 2745>>, <<2749, 2749>>, <<2768, 2768>>,
        <<2784, 2785>>, <<2809, 2809>>, <<2821, 2828>>, <<2831, 2832>>, <<2835, 2856>>,
        <<2858, 2864>>, <<2866, 2867>>, <<2869, 2873>>, <<2877, 2877>>, <<2908, 2909>>,
        <<2911, 2913>>, <<2929, 2929>>, <<2947, 2947>>, <<2949, 2954>>, <<2958, 2960>>,
        <<2962, 2965>>, <<2969, 2970>>, <<2972, 2972>>, <<2974, 2975>>, <<2979, 2980>>,
        <<2984, 2986>>, <<2990, 3001>>, <<3024, 3024>>, <<3077, 3084>>, <<3086, 3088>>,
        <<3090, 3112>>, <<3114, 3129>>, <<3133, 3133>>, <<3160, 3162>>, <<3168, 3169>>,
        <<3200, 3200>>, <<3205, 3212>>, <<3214, 3216>>, <<3218, 3240>>, <<3242, 3251>>,
        <<3253, 3257>>, <<3261, 3261>>, <<3294, 3294>>, <<3296, 3297>>, <<3313, 3314>>,
        <<3332, 3340>>, <<3342, 3344>>, <<3346, 3386>>, <<3389, 3389>>, <<3406, 3406>>,
        <<3412, 3414>>, <<3423, 3425>>, <<3450, 3455>>, <<3461, 3478>>, <<3482, 3505>>,
        <<3507, 3515>>, <<3517, 3517>>, <<3520, 3526>>, <<3585, 3632>>, <<3634, 3635>>,
        <<3648, 3654>>, <<3713, 3714>>, <<3716, 3716>>, <<3718, 3722>>, <<3724, 3747>>,
        <<3749, 3749>>, <<3751, 3760>>, <<3762, 3763>>, <<3773, 3773>>, <<3776, 3780>>,
        <<3782, 3782>>, <<3804, 3807>>, <<3840, 3840>>, <<3904, 3911>>, <<3913, 3948>>,
        <<3976, 3980>>, <<4096, 4138>>, <<4159, 4159>>, <<4176, 4181>>, <<4186, 4189>>,
        <<4193, 4193>>, <<4197, 4198>>, <<4206, 4208>>, <<4213, 4225>>, <<4238, 4238>>,
        <<4256, 4293>>, <<4295, 4295>>, <<4301, 4301>>, <<4304, 4346>>, <<4348, 4680>>,
        <<4682, 4685>>, <<4688, 4694>>, <<4696, 4696>>, <<4698, 4701>>, <<4704, 4744>>,
        <<4746, 4749>>, <<4752, 4784>>, <<4786, 4789>>, <<4792, 4798>>, <<4800, 4800>>,
        <<4802, 4805>>, <<4808, 4822>>, <<4824, 4880>>, <<4882, 4885>>, <<4888, 4954>>,
        <<4992, 5007>>, <<5024, 5109>>, <<5112, 5117>>, <<5121, 5740>>, <<5743, 5759>>,
        <<5761, 5786>>, <<5792, 5866>>, <<5873, 5880>>, <<5888, 5900>>, <<5902, 5905>>,
        <<5920, 5937>>, <<5952, 5969>>, <<5984, 5996>>, <<5998, 6000>>, <<6016, 6067>>,
        <<6103, 6103>>, <<6108, 6108>>, <<6176, 6264>>, <<6272, 6276>>, <<6279, 6312>>,
        <<6314, 6314>>, <<6320, 6389>>, <<6400, 6430>>, <<6480, 6509>>, <<6512, 6516>>,
        <<6528, 6571>>, <<6576, 6601>>, <<6656, 6678>>, <<6688, 6740>>, <<6823, 6823>>,
        <<6917, 6963>>, <<6981, 6987>>, <<7043, 7072>>, <<7086, 7087>>, <<7098, 7141>>,
        <<7168, 7203>>, <<7245, 7247>>, <<7258, 7293>>, <<7296, 7304>>, <<7312, 7354>>,
        <<7357, 7359>>, <<7401, 7404>>, <<7406, 7411>>, <<7413, 7414>>, <<7418, 7418>>,
        <<7424, 7615>>, <<7680, 7957>>, <<7960, 7965>>, <<7968, 8005>>, <<8008, 8013>>,
        <<8016, 8023>>, <<8025, 8025>>, <<8027, 8027>>, <<8029, 8029>>, <<8031, 8061>>,
        <<8064, 8116>>, <<8118, 8124>>, <<8126, 8126>>, <<8130, 8132>>, <<8134, 8140>>,
        <<8144, 8147>>, <<8150, 8155>>, <<8160, 8172>>, <<8178, 8180>>, <<8182, 8188>>,
        <<8305, 8305>>, <<8319, 8319>>, <<8336, 8348>>, <<8450, 8450>>, <<8455, 8455>>,
        <<8458, 8467>>, <<8469, 8469>>, <<8473, 8477>>, <<8484, 8484>>, <<8486, 8486>>,
        <<8488, 8488>>, <<8490, 8493>>, <<8495, 8505>>, <<8508, 8511>>, <<8517, 8521>>,
        <<8526, 8526>>, <<8579, 8580>>, <<11264, 11310>>, <<11312, 11358>>,
        <<11360, 11492>>, <<11499, 11502>>, <<11506, 11507>>, <<11520, 11557>>,
        <<11559, 11559>>, <<11565, 11565>>, <<11568, 11623>>, <<11631, 11631>>,
        <<11648, 11670>>, <<11680, 11686>>, <<11688, 11694>>, <<11696, 11702>>,
        <<11704, 11710>>, <<11712, 11718>>, <<11720, 11726>>, <<11728, 11734>>,
        <<11736, 11742>>, <<11823, 11823>>, <<12293, 12294>>, <<12337, 12341>>,
        <<12347, 12348>>, <<12353, 12438>>, <<12445, 12447>>, <<12449, 12538>>,
        <<12540, 12543>>, <<12549, 12591>>, <<12593, 12686>>, <<12704, 12735>>,
        <<12784, 12799>>, <<13312, 19903>>, <<19968, 40956>>, <<40960, 42124>>,
        <<42192, 42237>>, <<42240, 42508>>, <<42512, 42527>>, <<42538, 42539>>,
        <<42560, 42606>>, <<42623, 42653>>, <<42656, 42725>>, <<42775, 42783>>,
        <<42786, 42888>>, <<42891, 42943>>, <<42946, 42954>>, <<42997, 43009>>,
        <<43011, 43013>>, <<43015, 43018>>, <<43020, 43042>>, <<43072, 43123>>,
        <<43138, 43187>>, <<43250, 43255>>, <<43259, 43259>>, <<43261, 43262>>,
        <<43274, 43301>>, <<43312, 43334>>, <<43360, 43388>>, <<43396, 43442>>,
        <<43471, 43471>>, <<43488, 43492>>, <<43494, 43503>>, <<43514, 43518>>,
        <<43520, 43560>>, <<43584, 43586>>, <<43588, 43595>>, <<43616, 43638>>,
        <<43642, 43642>>, <<43646, 43695>>, <<43697, 43697>>, <<43701, 43702>>,
        <<43705, 43709>>, <<43712, 43712>>, <<43714, 43714>>, <<43739, 43741>>,
        <<43744, 43754>>, <<43762, 43764>>, <<43777, 43782>>, <<43785, 43790>>,
        <<43793, 43798>>, <<43808, 43814>>, <<43816, 43822>>, <<43824, 43866>>,
        <<43868, 43881>>, <<43888, 44002>>, <<44032, 55203>>, <<55216, 55238>>,
        <<55243, 55291>>, <<63744, 64109>>, <<64112, 64217>>, <<64256, 64262>>,
        <<64275, 64279>>, <<64285, 64285>>, <<64287, 64296>>, <<64298, 64310>>,
        <<64312, 64316>>, <<64318, 64318>>, <<64320, 64321>>, <<64323, 64324>>,
        <<64326, 64433>>, <<64467, 64829>>, <<64848, 64911>>, <<64914, 64967>>,
        <<65008, 65019>>, <<65136, 65140>>, <<65142, 65276>>, <<65313, 65338>>,
        <<65345, 65370>>, <<65382, 65470>>, <<65474, 65479>>, <<65482, 65487>>,
        <<65490, 65495>>, <<65498, 65500>>, <<65536, 65547>>, <<65549, 65574>>,
        <<65576, 65594>>, <<65596, 65597>>, <<65599, 65613>>, <<65616, 65629>>,
        <<65664, 65786>>, <<66176, 66204>>, <<66208, 66256>>, <<66304, 66335>>,
        <<66349, 66368>>, <<66370, 66377>>, <<66384, 66421>>, <<66432, 66461>>,
        <<66464, 66499>>, <<66504, 66511>>, <<66560, 66717>>, <<66736, 66771>>,
        <<66776, 66811>>, <<66816, 66855>>, <<66864, 66915>>, <<67072, 67382>>,
        <<67392, 67413>>, <<67424, 67431>>, <<67584, 67589>>, <<67592, 67592>>,
        <<67594, 67637>>, <<67639, 67640>>, <<67644, 67644>>, <<67647, 67669>>,
        <<67680, 67702>>, <<67712, 67742>>, <<67808, 67826>>, <<67828, 67829>>,
        <<67840, 67861>>, <<67872, 67897>>, <<67968, 68023>>, <<68030, 68031>>,
        <<68096, 68096>>, <<68112, 68115>>, <<68117, 68119>>, <<68121, 68149>>,
        <<68192, 68220>>, <<68224, 68252>>, <<68288, 68295>>, <<68297, 68324>>,
        <<68352, 68405>>, <<68416, 68437>>, <<68448, 68466>>, <<68480, 68497>>,
        <<68608, 68680>>, <<68736, 68786>>, <<68800, 68850>>, <<68864, 68899>>,
        <<69248, 69289>>, <<69296, 69297>>, <<69376, 69404>>, <<69415, 69415>>,
        <<69424, 69445>>, <<69552, 69572>>, <<69600, 69622>>, <<69635, 69687>>,
        <<69763, 69807>>, <<69840, 69864>>, <<69891, 69926>>, <<69956, 69956>>,
        <<69959, 69959>>, <<69968, 70002>>, <<70006, 70006>>, <<70019, 70066>>,
        <<70081, 70084>>, <<70106, 70106>>, <<70108, 70108>>, <<70144, 70161>>,
        <<70163, 70187>>, <<70272, 70278>>, <<70280, 70280>>, <<70282, 70285>>,
        <<70287, 70301>>, <<70303, 70312>>, <<70320, 70366>>, <<70405, 70412>>,
        <<70415, 70416>>, <<70419, 70440>>, <<70442, 70448>>, <<70450, 70451>>,
        <<70453, 70457>>, <<70461, 70461>>, <<70480, 70480>>, <<70493, 70497>>,
        <<70656, 70708>>, <<70727, 70730>>, <<70751, 70753>>, <<70784, 70831>>,
        <<70852, 70853>>, <<70855, 70855>>, <<71040, 71086>>, <<71128, 71131>>,
        <<71168, 71215>>, <<71236, 71236>>, <<71296, 71338>>, <<71352, 71352>>,
        <<71424, 71450>>, <<71680, 71723>>, <<71840, 71903>>, <<71935, 71942>>,
        <<71945, 71945>>, <<71948, 71955>>, <<71957, 71958>>, <<71960, 71983>>,
        <<71999, 71999>>, <<72001, 72001>>, <<72096, 72103>>, <<72106, 72144>>,
        <<72161, 72161>>, <<72163, 72163>>, <<72192, 72192>>, <<72203, 72242>>,
        <<72250, 72250>>, <<72272, 72272>>, <<72284, 72329>>, <<72349, 72349>>,
        <<72384, 72440>>, <<72704, 72712>>, <<72714, 72750>>, <<72768, 72768>>,
        <<72818, 72847>>, <<72960, 72966>>, <<72968, 72969>>, <<72971, 73008>>,
        <<73030, 73030>>, <<73056, 73061>>, <<73063, 73064>>, <<73066, 73097>>,
        <<73112, 73112>>, <<73440, 73458>>, <<73648, 73648>>, <<73728, 74649>>,
        <<74880, 75075>>, <<77824, 78894>>, <<82944, 83526>>, <<92160, 92728>>,
        <<92736, 92766>>, <<92880, 92909>>, <<92928, 92975>>, <<92992, 92995>>,
        <<93027, 93047>>, <<93053, 93071>>, <<93760, 93823>>, <<93952, 94026>>,
        <<94032, 94032>>, <<94099, 94111>>, <<94176, 94177>>, <<94179, 94179>>,
        <<94208, 100343>>, <<100352, 101589>>, <<101632, 101640>>, <<110592, 110878>>,
        <<110928, 110930>>, <<110948, 110951>>, <<110960, 111355>>, <<113664, 113770>>,
        <<113776, 113788>>, <<113792, 113800>>, <<113808, 113817>>, <<119808, 119892>>,
        <<119894, 119964>>, <<119966, 119967>>, <<119970, 119970>>, <<119973, 119974>>,
        <<119977, 119980>>, <<119982, 119993>>, <<119995, 119995>>, <<119997, 120003>>,
        <<120005, 120069>>, <<120071, 120074>>, <<120077, 120084>>, <<120086, 120092>>,
        <<120094, 120121>>, <<120123, 120126>>, <<120128, 120132>>, <<120134, 120134>>,
        <<120138, 120144>>, <<120146, 120485>>, <<120488, 120512>>, <<120514, 120538>>,
        <<120540, 120570>>, <<120572, 120596>>, <<120598, 120628>>, <<120630, 120654>>,
        <<120656, 120686>>, <<120688, 120712>>, <<120714, 120744>>, <<120746, 120770>>,
        <<120772, 120779>>, <<123136, 123180>>, <<123191, 123197>>, <<123214, 123214>>,
        <<123584, 123627>>, <<124928, 125124>>, <<125184, 125251>>, <<125259, 125259>>,
        <<126464, 126467>>, <<126469, 126495>>, <<126497, 126498>>, <<126500, 126500>>,
        <<126503, 126503>>, <<126505, 126514>>, <<126516, 126519>>, <<126521, 126521>>,
        <<126523, 126523>>, <<126530, 126530>>, <<126535, 126535>>, <<126537, 126537>>,
        <<126539, 126539>>, <<126541, 126543>>, <<126545, 126546>>, <<126548, 126548>>,
        <<126551, 126551>>, <<126553, 126553>>, <<126555, 126555>>, <<126557, 126557>>,
        <<126559, 126559>>, <<126561, 126562>>, <<126564, 126564>>, <<126567, 126570>>,
        <<126572, 126578>>, <<126580, 126583>>, <<126585, 126588>>, <<126590, 126590>>,
        <<126592, 126601>>, <<126603, 126619>>, <<126625, 126627>>, <<126629, 126633>>,
        <<126635, 126651>>, <<131072, 173789>>, <<173824, 177972>>, <<177984, 178205>>,
        <<178208, 183969>>, <<183984, 191456>>, <<194560, 195101>>, <<196608, 201546>>>>
    ELSE
      <<<<65, 90>>, <<97, 122>>, <<170, 170>>, <<181, 181>>, <<186, 186>>, <<192, 214>>,
        <<216, 246>>, <<248, 705>>, <<710, 721>>, <<736, 740>>, <<748, 748>>,
        <<750, 750>>, <<880, 884>>, <<886, 887>>, <<890, 893>>, <<895, 895>>,
        <<902, 902>>, <<904, 906>>, <<908, 908>>, <<910, 929>>, <<931, 1013>>,
        <<1015, 1153>>, <<1162, 1327>>, <<1329, 1366>>, <<1369, 1369>>, <<1376, 1416>>,
        <<1488, 1514>>, <<1519, 1522>>, <<1568, 1610>>, <<1646, 1647>>, <<1649, 1747>>,
        <<1749, 1749>>, <<1765, 1766>>, <<1774, 1775>>, <<1786, 1788>>, <<1791, 1791>>,
        <<1808, 1808>>, <<1810, 1839>>, <<1869, 1957>>, <<1969, 1969>>, <<1994, 2026>>,
        <<2036, 2037>>, <<2042, 2042>>, <<2048, 2069>>, <<2074, 2074>>, <<2084, 2084>>,
        <<2088, 2088>>, <<2112, 2136>>, <<2144, 2154>>, <<2160, 2183>>, <<2185, 2190>>,
        <<2208, 2249>>, <<2308, 2361>>, <<2365, 2365>>, <<2384, 2384>>, <<2392, 2401>>,
        <<2417, 2432>>, <<2437, 2444>>, <<2447, 2448>>, <<2451, 2472>>, <<2474, 2480>>,
        <<2482, 2482>>, <<2486, 2489>>, <<2493, 2493>>, <<2510, 2510>>, <<2524, 2525>>,
        <<2527, 2529>>, <<2544, 2545>>, <<2556, 2556>>, <<2565, 2570>>, <<2575, 2576>>,
        <<2579, 2600>>, <<2602, 2608>>, <<2610, 2611>>, <<2613, 2614>>, <<2616, 2617>>,
        <<2649, 2652>>, <<2654, 2654>>, <<2674, 2676>>, <<2693, 2701>>, <<2703, 2705>>,
        <<2707, 2728>>, <<2730, 2736>>, <<2738, 2739>>, <<2741, 2745>>, <<2749, 2749>>,
        <<2768, 2768>>, <<2784, 2785>>, <<2809, 2809>>, <<2821, 2828>>, <<2831, 2832>>,
        <<2835, 2856>>, <<2858, 2864>>, <<2866, 2867>>, <<2869, 2873>>, <<2877, 2877>>,
        <<2908, 2909>>, <<2911, 2913>>, <<2929, 2929>>, <<2947, 2947>>, <<2949, 2954>>,
        <<2958, 2960>>, <<2962, 2965>>, <<2969, 2970>>, <<2972, 2972>>, <<2974, 2975>>,
        <<2979, 2980>>, <<2984, 2986>>, <<2990, 3001>>, <<3024, 3024>>, <<3077, 3084>>,
        <<3086, 3088>>, <<3090, 3112>>, <<3114, 3129>>, <<3133, 3133>>, <<3160, 3162>>,
        <<3165, 3165>>, <<3168, 3169>>, <<3200, 3200>>, <<3205, 3212>>, <<3214, 3216>>,
        <<3218, 3240>>, <<3242, 3251>>, <<3253, 3257>>, <<3261, 3261>>, <<3293, 3294>>,
        <<3296, 3297>>, <<3313, 3314>>, <<3332, 3340>>, <<3342, 3344>>, <<3346, 3386>>,
        <<3389, 3389>>, <<3406, 3406>>, <<3412, 3414>>, <<3423, 3425>>, <<3450, 3455>>,
        <<3461, 3478>>, <<3482, 3505>>, <<3507, 3515>>, <<3517, 3517>>, <<3520, 3526>>,
        <<3585, 3632>>, <<3634, 3635>>, <<3648, 3654>>, <<3713, 3714>>, <<3716, 3716>>,
        <<3718, 3722>>, <<3724, 3747>>, <<3749, 3749>>, <<3751, 3760>>, <<3762, 3763>>,
        <<3773, 3773>>, <<3776, 3780>>, <<3782, 3782>>, <<3804, 3807>>, <<3840, 3840>>,
        <<3904, 3911>>, <<3913, 3948>>, <<3976, 3980>>, <<4096, 4138>>, <<4159, 4159>>,
        <<4176, 4181>>, <<4186, 4189>>, <<4193, 4193>>, <<4197, 4198>>, <<4206, 4208>>,
        <<4213, 4225>>, <<4238, 4238>>, <<4256, 4293>>, <<4295, 4295>>, <<4301, 4301>>,
        <<4304, 4346>>, <<4348, 4680>>, <<4682, 4685>>, <<4688, 4694>>, <<4696, 4696>>,
        <<4698, 4701>>, <<4704, 4744>>, <<4746, 4749>>, <<4752, 4784>>, <<4786, 4789>>,
        <<4792, 4798>>, <<4800, 4800>>, <<4802, 4805>>, <<4808, 4822>>, <<4824, 4880>>,
        <<4882, 4885>>, <<4888, 4954>>, <<4992, 5007>>, <<5024, 5109>>, <<5112, 5117>>,
        <<5121, 5740>>, <<5743, 5759>>, <<5761, 5786>>, <<5792, 5866>>, <<5873, 5880>>,
        <<5888, 5905>>, <<5919, 5937>>, <<5952, 5969>>, <<5984, 5996>>, <<5998, 6000>>,
        <<6016, 6067>>, <<6103, 6103>>, <<6108, 6108>>, <<6176, 6264>>, <<6272, 6276>>,
        <<6279, 6312>>, <<6314, 6314>>, <<6320, 6389>>, <<6400, 6430>>, <<6480, 6509>>,
        <<6512, 6516>>, <<6528, 6571>>, <<6576, 6601>>, <<6656, 6678>>, <<6688, 6740>>,
        <<6823, 6823>>, <<6917, 6963>>, <<6981, 6988>>, <<7043, 7072>>, <<7086, 7087>>,
        <<7098, 7141>>, <<7168, 7203>>, <<7245, 7247>>, <<7258, 7293>>, <<7296, 7304>>,
        <<7312, 7354>>, <<7357, 7359>>, <<7401, 7404>>, <<7406, 7411>>, <<7413, 7414>>,
        <<7418, 7418>>, <<7424, 7615>>, <<7680, 7957>>, <<7960, 7965>>, <<7968, 8005>>,
        <<8008, 8013>>, <<8016, 8023>>, <<8025, 8025>>, <<8027, 8027>>, <<8029, 8029>>,
        <<8031, 8061>>, <<8064, 8116>>, <<8118, 8124>>, <<8126, 8126>>, <<8130, 8132>>,
        <<8134, 8140>>, <<8144, 8147>>, <<8150, 8155>>, <<8160, 8172>>, <<8178, 8180>>,
        <<8182, 8188>>, <<8305, 8305>>, <<8319, 8319>>, <<8336, 8348>>, <<8450, 8450>>,
        <<8455, 8455>>, <<8458, 8467>>, <<8469, 8469>>, <<8473, 8477>>, <<8484, 8484>>,
        <<8486, 8486>>, <<8488, 8488>>, <<8490, 8493>>, <<8495, 8505>>, <<8508, 8511>>,
        <<8517, 8521>>, <<8526, 8526>>, <<8579, 8580>>, <<11264, 11492>>,
        <<11499, 11502>>, <<11506, 11507>>, <<11520, 11557>>, <<11559, 11559>>,
        <<11565, 11565>>, <<11568, 11623>>, <<11631, 11631>>, <<11648, 11670>>,
        <<11680, 11686>>, <<11688, 11694>>, <<11696, 11702>>, <<11704, 11710>>,
        <<11712, 11718>>, <<11720, 11726>>, <<11728, 11734>>, <<11736, 11742>>,
        <<11823, 11823>>, <<12293, 12294>>, <<12337, 12341>>, <<12347, 12348>>,
        <<12353, 12438>>, <<12445, 12447>>, <<12449, 12538>>, <<12540, 12543>>,
        <<12549, 12591>>, <<12593, 12686>>, <<12704, 12735>>, <<12784, 12799>>,
        <<13312, 19903>>, <<19968, 42124>>, <<42192, 42237>>, <<42240, 42508>>,
        <<42512, 42527>>, <<42538, 42539>>, <<42560, 42606>>, <<42623, 42653>>,
        <<42656, 42725>>, <<42775, 42783>>, <<42786, 42888>>, <<42891, 42954>>,
        <<42960, 42961>>, <<42963, 42963>>, <<42965, 42969>>, <<42994, 43009>>,
        <<43011, 43013>>, <<43015, 43018>>, <<43020, 43042>>, <<43072, 43123>>,
        <<43138, 43187>>, <<43250, 43255>>, <<43259, 43259>>, <<43261, 43262>>,
        <<43274, 43301>>, <<43312, 43334>>, <<43360, 43388>>, <<43396, 43442>>,
        <<43471, 43471>>, <<43488, 43492>>, <<43494, 43503>>, <<43514, 43518>>,
        <<43520, 43560>>, <<43584, 43586>>, <<43588, 43595>>, <<43616, 43638>>,
        <<43642, 43642>>, <<43646, 43695>>, <<43697, 43697>>, <<43701, 43702>>,
        <<43705, 43709>>, <<43712, 43712>>, <<43714, 43714>>, <<43739, 43741>>,
        <<43744, 43754>>, <<43762, 43764>>, <<43777, 43782>>, <<43785, 43790>>,
        <<43793, 43798>>, <<43808, 43814>>, <<43816, 43822>>, <<43824, 43866>>,
        <<43868, 43881>>, <<43888, 44002>>, <<44032, 55203>>, <<55216, 55238>>,
        <<55243, 55291>>, <<63744, 64109>>, <<64112, 64217>>, <<64256, 64262>>,
        <<64275, 64279>>, <<64285, 64285>>, <<64287, 64296>>, <<64298, 64310>>,
        <<64312, 64316>>, <<64318, 64318>>, <<64320, 64321>>, <<64323, 64324>>,
        <<64326, 64433>>, <<64467, 64829>>, <<64848, 64911>>, <<64914, 64967>>,
        <<65008, 65019>>, <<65136, 65140>>, <<65142, 65276>>, <<65313, 65338>>,
        <<65345, 65370>>, <<65382, 65470>>, <<65474, 65479>>, <<65482, 65487>>,
        <<65490, 65495>>, <<65498, 65500>>, <<65536, 65547>>, <<65549, 65574>>,
        <<65576, 65594>>, <<65596, 65597>>, <<65599, 65613>>, <<65616, 65629>>,
        <<65664, 65786>>, <<66176, 66204>>, <<66208, 66256>>, <<66304, 66335>>,
        <<66349, 66368>>, <<66370, 66377>>, <<66384, 66421>>, <<66432, 66461>>,
        <<66464, 66499>>, <<66504, 66511>>, <<66560, 66717>>, <<66736, 66771>>,
        <<66776, 66811>>, <<66816, 66855>>, <<66864, 66915>>, <<66928, 66938>>,
        <<66940, 66954>>, <<66956, 66962>>, <<66964, 66965>>, <<66967, 66977>>,
        <<66979, 66993>>, <<66995, 67001>>, <<67003, 67004>>, <<67072, 67382>>,
        <<67392, 67413>>, <<67424, 67431>>, <<67456, 67461>>, <<67463, 67504>>,
        <<67506, 67514>>, <<67584, 67589>>, <<67592, 67592>>, <<67594, 67637>>,
        <<67639, 67640>>, <<67644, 67644>>, <<67647, 67669>>, <<67680, 67702>>,
        <<67712, 67742>>, <<67808, 67826>>, <<67828, 67829>>, <<67840, 67861>>,
        <<67872, 67897>>, <<67968, 68023>>, <<68030, 68031>>, <<68096, 68096>>,
        <<68112, 68115>>, <<68117, 68119>>, <<68121, 68149>>, <<68192, 68220>>,
        <<68224, 68252>>, <<68288, 68295>>, <<68297, 68324>>, <<68352, 68405>>,
        <<68416, 68437>>, <<68448, 68466>>, <<68480, 68497>>, <<68608, 68680>>,
        <<68736, 68786>>, <<68800, 68850>>, <<68864, 68899>>, <<69248, 69289>>,
        <<69296, 69297>>, <<69376, 69404>>, <<69415, 69415>>, <<69424, 69445>>,
        <<69488, 69505>>, <<69552, 69572>>, <<69600, 69622>>, <<69635, 69687>>,
        <<69745, 69746>>, <<69749, 69749>>, <<69763, 69807>>, <<69840, 69864>>,
        <<69891, 69926>>, <<69956, 69956>>, <<69959, 69959>>, <<69968, 70002>>,
        <<70006, 70006>>, <<70019, 70066>>, <<70081, 70084>>, <<70106, 70106>>,
        <<70108, 70108>>, <<70144, 70161>>, <<70163, 70187>>, <<70207, 70208>>,
        <<70272, 70278>>, <<70280, 70280>>, <<70282, 70285>>, <<70287, 70301>>,
        <<70303, 70312>>, <<70320, 70366>>, <<70405, 70412>>, <<70415, 70416>>,
        <<70419, 70440>>, <<70442, 70448>>, <<70450, 70451>>, <<70453, 70457>>,
        <<70461, 70461>>, <<70480, 70480>>, <<70493, 70497>>, <<70656, 70708>>,
        <<70727, 70730>>, <<70751, 70753>>, <<70784, 70831>>, <<70852, 70853>>,
        <<70855, 70855>>, <<71040, 71086>>, <<71128, 71131>>, <<71168, 71215>>,
        <<71236, 71236>>, <<71296, 71338>>, <<71352, 71352>>, <<71424, 71450>>,
        <<71488, 71494>>, <<71680, 71723>>, <<71840, 71903>>, <<71935, 71942>>,
        <<71945, 71945>>, <<71948, 71955>>, <<71957, 71958>>, <<71960, 71983>>,
        <<71999, 71999>>, <<72001, 72001>>, <<72096, 72103>>, <<72106, 72144>>,
        <<72161, 72161>>, <<72163, 72163>>, <<72192, 72192>>, <<72203, 72242>>,
        <<72250, 72250>>, <<72272, 72272>>, <<72284, 72329>>, <<72349, 72349>>,
        <<72368, 72440>>, <<72704, 72712>>, <<72714, 72750>>, <<72768, 72768>>,
        <<72818, 72847>>, <<72960, 72966>>, <<72968, 72969>>, <<72971, 73008>>,
        <<73030, 73030>>, <<73056, 73061>>, <<73063, 73064>>, <<73066, 73097>>,
        <<73112, 73112>>, <<73440, 73458>>, <<73474, 73474>>, <<73476, 73488>>,
        <<73490, 73523>>, <<73648, 73648>>, <<73728, 74649>>, <<74880, 75075>>,
        <<77712, 77808>>, <<77824, 78895>>, <<78913, 78918>>, <<82944, 83526>>,
        <<92160, 92728>>, <<92736, 92766>>, <<92784, 92862>>, <<92880, 92909>>,
        <<92928, 92975>>, <<92992, 92995>>, <<93027, 93047>>, <<93053, 93071>>,
        <<93760, 93823>>, <<93952, 94026>>, <<94032, 94032>>, <<94099, 94111>>,
        <<94176, 94177>>, <<94179, 94179>>, <<94208, 100343>>, <<100352, 101589>>,
        <<101632, 101640>>, <<110576, 110579>>, <<110581, 110587>>, <<110589, 110590>>,
        <<110592, 110882>>, <<110898, 110898>>, <<110928, 110930>>, <<110933, 110933>>,
        <<110948, 110951>>, <<110960, 111355>>, <<113664, 113770>>, <<113776, 113788>>,
        <<113792, 113800>>, <<113808, 113817>>, <<119808, 119892>>, <<119894, 119964>>,
        <<119966, 119967>>, <<119970, 119970>>, <<119973, 119974>>, <<119977, 119980>>,
        <<119982, 119993>>, <<119995, 119995>>, <<119997, 120003>>, <<120005, 120069>>,
        <<120071, 120074>>, <<120077, 120084>>, <<120086, 120092>>, <<120094, 120121>>,
        <<120123, 120126>>, <<120128, 120132>>, <<120134, 120134>>, <<120138, 120144>>,
        <<120146, 120485>>, <<120488, 120512>>, <<120514, 120538>>, <<120540, 120570>>,
        <<120572, 120596>>, <<120598, 120628>>, <<120630, 120654>>, <<120656, 120686>>,
        <<120688, 120712>>, <<120714, 120744>>, <<120746, 120770>>, <<120772, 120779>>,
        <<122624, 122654>>, <<122661, 122666>>, <<122928, 122989>>, <<123136, 123180>>,
        <<123191, 123197>>, <<123214, 123214>>, <<123536, 123565>>, <<123584, 123627>>,
        <<124112, 124139>>, <<124896, 124902>>, <<124904, 124907>>, <<124909, 124910>>,
        <<124912, 124926>>, <<124928, 125124>>, <<125184, 125251>>, <<125259, 125259>>,
        <<126464, 126467>>, <<126469, 126495>>, <<126497, 126498>>, <<126500, 126500>>,
        <<126503, 126503>>, <<126505, 126514>>, <<126516, 126519>>, <<126521, 126521>>,
        <<126523, 126523>>, <<126530, 126530>>, <<126535, 126535>>, <<126537, 126537>>,
        <<126539, 126539>>, <<126541, 126543>>, <<126545, 126546>>, <<126548, 126548>>,
        <<126551, 126551>>, <<126553, 126553>>, <<126555, 126555>>, <<126557, 126557>>,
        <<126559, 126559>>, <<126561, 126562>>, <<126564, 126564>>, <<126567, 126570>>,
        <<126572, 126578>>, <<126580, 126583>>, <<126585, 126588>>, <<126590, 126590>>,
        <<126592, 126601>>, <<126603, 126619>>, <<126625, 126627>>, <<126629, 126633>>,
        <<126635, 126651>>, <<131072, 173791>>, <<173824, 177977>>, <<177984, 178205>>,
        <<178208, 183969>>, <<183984, 191456>>, <<194560, 195101>>, <<196608, 201546>>,
        <<201552, 205743>>>>

\* unicode.Digit of the toolchain: the ranges of the decimal digits (category
\* Nd) of Unicode 13.0.0 and of Unicode 15.0.0
DigitRanges(version) ==
    IF version = "13.0.0"
    THEN
      <<<<48, 57>>, <<1632, 1641>>, <<1776, 1785>>, <<1984, 1993>>, <<2406, 2415>>,
        <<2534, 2543>>, <<2662, 2671>>, <<2790, 2799>>, <<2918, 2927>>, <<3046, 3055>>,
        <<3174, 3183>>, <<3302, 3311>>, <<3430, 3439>>, <<3558, 3567>>, <<3664, 3673>>,
        <<3792, 3801>>, <<3872, 3881>>, <<4160, 4169>>, <<4240, 4249>>, <<6112, 6121>>,
        <<6160, 6169>>, <<6470, 6479>>, <<6608, 6617>>, <<6784, 6793>>, <<6800, 6809>>,
        <<6992, 7001>>, <<7088, 7097>>, <<7232, 7241>>, <<7248, 7257>>, <<42528, 42537>>,
        <<43216, 43225>>, <<43264, 43273>>, <<43472, 43481>>, <<43504, 43513>>,
        <<43600, 43609>>, <<44016, 44025>>, <<65296, 65305>>, <<66720, 66729>>,
        <<68912, 68921>>, <<69734, 69743>>, <<69872, 69881>>, <<69942, 69951>>,
        <<70096, 70105>>, <<70384, 70393>>, <<70736, 70745>>, <<70864, 70873>>,
        <<71248, 71257>>, <<71360, 71369>>, <<71472, 71481>>, <<71904, 71913>>,
        <<72016, 72025>>, <<72784, 72793>>, <<73040, 73049>>, <<73120, 73129>>,
        <<92768, 92777>>, <<93008, 93017>>, <<120782, 120831>>, <<123200, 123209>>,
        <<123632, 123641>>, <<125264, 125273>>, <<130032, 130041>>>>
    ELSE
      <<<<48, 57>>, <<1632, 1641>>, <<1776, 1785>>, <<1984, 1993>>, <<2406, 2415>>,
        <<2534, 2543>>, <<2662, 2671>>, <<2790, 2799>>, <<2918, 2927>>, <<3046, 3055>>,
        <<3174, 3183>>, <<3302, 3311>>, <<3430, 3439>>, <<3558, 3567>>, <<3664, 3673>>,
        <<3792, 3801>>, <<3872, 3881>>, <<4160, 4169>>, <<4240, 4249>>, <<6112, 6121>>,
        <<6160, 6169>>, <<6470, 6479>>, <<6608, 6617>>, <<6784, 6793>>, <<6800, 6809>>,
        <<6992, 7001>>, <<7088, 7097>>, <<7232, 7241>>, <<7248, 7257>>, <<42528, 42537>>,
        <<43216, 43225>>, <<43264, 43273>>, <<43472, 43481>>, <<43504, 43513>>,
        <<43600, 43609>>, <<44016, 44025>>, <<65296, 65305>>, <<66720, 66729>>,
        <<68912, 68921>>, <<69734, 69743>>, <<69872, 69881>>, <<69942, 69951>>,
        <<70096, 70105>>, <<70384, 70393>>, <<70736, 70745>>, <<70864, 70873>>,
        <<71248, 71257>>, <<71360, 71369>>, <<71472, 71481>>, <<71904, 71913>>,
        <<72016, 72025>>, <<72784, 72793>>, <<73040, 73049>>, <<73120, 73129>>,
        <<73552, 73561>>, <<92768, 92777>>, <<92864, 92873>>, <<93008, 93017>>,
        <<120782, 120831>>, <<123200, 123209>>, <<123632, 123641>>, <<124144, 124153>>,
        <<125264, 125273>>, <<130032, 130041>>>>

\* unicode.IsLetter(r), built with the unicode package of that version
IsLetter(r, version) ==
    With(LetterRanges(version), LAMBDA table :
      \E i \in 1..Len(table) : table[i][1] <= r /\ r <= table[i][2])

\* unicode.IsDigit(r), built with the unicode package of that version
IsDigit(r, version) ==
    With(DigitRanges(version), LAMBDA table :
      \E i \in 1..Len(table) : table[i][1] <= r /\ r <= table[i][2])

\* the rune that starts at s[i] and the bytes it takes, as "for range" over a
\* string decodes it: a byte below 0x80; a lead byte and its continuation
\* bytes 10xxxxxx, in the shortest encoding only, no surrogate and nothing
\* above U+10FFFF; for any other byte utf8.RuneError (U+FFFD) and that byte alone
DecodeRune(s, i) ==
    LET t == s \o <<"x00", "x00", "x00">>
        b0 == Ord(t[i])
        b1 == Ord(t[i + 1])
        b2 == Ord(t[i + 2])
        b3 == Ord(t[i + 3])
    IN  IF b0 < 128 THEN [r |-> b0, size |-> 1]
        ELSE IF b0 \in 194..223 /\ b1 \in 128..191
        THEN [r |-> (b0 % 32) * 64 + (b1 % 64), size |-> 2]
        ELSE IF /\ b0 \in 224..239
                /\ b1 \in 128..191
                /\ b0 = 224 => b1 >= 160
                /\ b0 = 237 => b1 <= 159
                /\ b2 \in 128..191
        THEN [r |-> (b0 % 16) * 4096 + (b1 % 64) * 64 + (b2 % 64), size |-> 3]
        ELSE IF /\ b0 \in 240..244
                /\ b1 \in 128..191
                /\ b0 = 240 => b1 >= 144
                /\ b0 = 244 => b1 <= 143
                /\ b2 \in 128..191
                /\ b3 \in 128..191
        THEN [r |-> (b0 % 8) * 262144 + (b1 % 64) * 4096 + (b2 % 64) * 64 + (b3 % 64),
              size |-> 4]
        ELSE [r |-> 65533, size |-> 1]

\* the characters of "!#$%&()*+-./:<=>?@[]^_{|}~ "
TagPunctuation ==
    {"!", "#", "$", "%", "&", "(", ")", "*", "+", "-", ".", "/", ":", "<", "=", ">",
     "?", "@", "[", "]", "^", "_", "{", "|", "}", "~", " "}

\* the loop of isValidTag over the runes of s from s[i] on
RECURSIVE ValidTagFrom(_, _, _)
ValidTagFrom(s, i, version) ==
    \/ i > Len(s)
    \/ /\ With(DecodeRune(s, i).r, LAMBDA c :
             \/ c < 128 /\ Chr[c + 1] \in TagPunctuation
             \/ IsDigit(c, version)
             \/ IsLetter(c, version))
       /\ ValidTagFrom(s, i + DecodeRune(s, i).size, version)

\* isValidTag(s), built with the unicode package of that version
isValidTag(s, version) == s # <<>> /\ ValidTagFrom(s, 1, version)

\* index of the first "," in tag, or 0
RECURSIVE CommaAt(_, _)
CommaAt(tag, i) ==
    IF i > Len(tag) THEN 0 ELSE IF tag[i] = "," THEN i ELSE CommaAt(tag, i + 1)

\* parseTag: the name before the first comma and the options after it
parseTag(tag) ==
    LET k == CommaAt(tag, 1)
    IN  IF k = 0 THEN [name |-> tag, opts |-> <<>>]
        ELSE [name |-> SubSeq(tag, 1, k - 1), opts |-> SubSeq(tag, k + 1, Len(tag))]

\* tagOptions.Contains
RECURSIVE Contains(_, _)
Contains(opts, optionName) ==
    IF opts = <<>> THEN FALSE
    ELSE LET k == CommaAt(opts, 1)
             first == IF k = 0 THEN opts ELSE SubSeq(opts, 1, k - 1)
             rest == IF k = 0 THEN <<>> ELSE SubSeq(opts, k + 1, Len(opts))
         IN  first = optionName \/ Contains(rest, optionName)

OmitEmptyOption == <<"o", "m", "i", "t", "e", "m", "p", "t", "y">>

\* the predicate foldFunc(name) returns: equality up to the case of ASCII letters
equalFold(s, t) ==
    /\ Len(s) = Len(t)
    /\ \A i \in 1..Len(s) :
          \/ s[i] = t[i]
          \/ /\ Ord(s[i]) \in (65..90) \cup (97..122)
             /\ Ord(t[i]) \in (65..90) \cup (97..122)
             /\ Ord(s[i]) % 32 = Ord(t[i]) % 32

\* s < t for Go strings (bytewise)
RECURSIVE BytesLess(_, _)
BytesLess(s, t) ==
    IF t = <<>> THEN FALSE
    ELSE IF s = <<>> THEN TRUE
    ELSE IF s[1] # t[1] THEN Ord(s[1]) < Ord(t[1])
    ELSE BytesLess(Tail(s), Tail(t))

\* byIndex.Less on two index paths
RECURSIVE IndexLessFrom(_, _, _)
IndexLessFrom(a, b, k) ==
    IF k > Len(a) THEN Len(a) < Len(b)
    ELSE IF k > Len(b) THEN FALSE
    ELSE IF a[k] # b[k] THEN a[k] < b[k]
    ELSE IndexLessFrom(a, b, k + 1)

byIndexLess(x, y) == IndexLessFrom(x.index, y.index, 1)

\* the less function typeFields hands to sort.Slice
byNameLess(x, y) ==
    IF x.name # y.name THEN BytesLess(x.name, y.name)
    ELSE IF Len(x.index) # Len(y.index) THEN Len(x.index) < Len(y.index)
    ELSE IF x.tag # y.tag THEN x.tag
    ELSE byIndexLess(x, y)

RECURSIVE InsertByName(_, _)
InsertByName(sorted, x) ==
    IF sorted = <<>> THEN <<x>>
    ELSE IF byNameLess(x, sorted[1]) THEN <<x>> \o sorted
    ELSE <<sorted[1]>> \o InsertByName(Tail(sorted), x)

RECURSIVE sortByName(_)
sortByName(fs) ==
    IF fs = <<>> THEN <<>>
    ELSE InsertByName(sortByName(SubSeq(fs, 1, Len(fs) - 1)), fs[Len(fs)])

RECURSIVE InsertByIndex(_, _)
InsertByIndex(sorted, x) ==
    IF sorted = <<>> THEN <<x>>
    ELSE IF byIndexLess(x, sorted[1]) THEN <<x>> \o sorted
    ELSE <<sorted[1]>> \o InsertByIndex(Tail(sorted), x)

RECURSIVE sortByIndex(_)
sortByIndex(fs) ==
    IF fs = <<>> THEN <<>>
    ELSE InsertByIndex(sortByIndex(SubSeq(fs, 1, Len(fs) - 1)), fs[Len(fs)])

dominantField(fs) ==
    IF Len(fs) > 1 /\ Len(fs[1].index) = Len(fs[2].index) /\ fs[1].tag = fs[2].tag
    THEN [ok |-> FALSE]
    ELSE [ok |-> TRUE, field |-> fs[1]]

\* a map[reflect.Type]int lookup
CountOf(m, t) == IF t \in DOMAIN m THEN m[t] ELSE 0

Increment(m, t) ==
    [x \in DOMAIN m \cup {t} |-> IF x = t THEN CountOf(m, t) + 1 ELSE m[x]]

\* the body of the loop over the declared fields of f.typ, for field i (from 0)
scanStructField(st, f, i) ==
    LET sf == f.typ.fields[i + 1]
        isUnexported == ~sf.Exported
    IN  IF sf.Anonymous /\ isUnexported /\ sf.Type.kind # "Struct" THEN st
        ELSE IF ~sf.Anonymous /\ isUnexported THEN st
        ELSE IF sf.Tag = <<"-">> THEN st
        ELSE
          LET p == parseTag(sf.Tag)
              name == IF isValidTag(p.name, unicode) THEN p.name ELSE <<>>
              index == Append(f.index, i)
              ft == sf.Type
          IN  IF name # <<>> \/ ~sf.Anonymous \/ ft.kind # "Struct"
              THEN LET fld == [name      |-> IF name = <<>> THEN sf.Name ELSE name,
                               tag       |-> name # <<>>,
                               index     |-> index,
                               typ       |-> ft,
                               omitEmpty |-> Contains(p.opts, OmitEmptyOption),
                               quoted    |-> FALSE]
                   IN  [st EXCEPT !.fields = IF CountOf(st.count, f.typ) > 1
                                             THEN @ \o <<fld, fld>>
                                             ELSE Append(@, fld)]
              ELSE LET nc == Increment(st.nextCount, ft)
                   IN  [st EXCEPT !.nextCount = nc,
                                  !.next = IF nc[ft] = 1
                                           THEN Append(@, [name |-> ft.name, index |-> index,
                                                           typ |-> ft])
                                           ELSE @]

RECURSIVE scanStructFields(_, _, _)
scanStructFields(st, f, i) ==
    IF i >= Len(f.typ.fields) THEN st
    ELSE scanStructFields(scanStructField(st, f, i), f, i + 1)

\* the loop over the structs of the current embedding level
RECURSIVE scanCurrent(_, _)
scanCurrent(st, current) ==
    IF current = <<>> THEN st
    ELSE LET f == current[1]
         IN  IF f.typ \in st.visited THEN scanCurrent(st, Tail(current))
             ELSE scanCurrent(
                    scanStructFields([st EXCEPT !.visited = @ \cup {f.typ}], f, 0),
                    Tail(current))

\* the breadth-first loop: one iteration per embedding level
RECURSIVE scanLevels(_)
scanLevels(st) ==
    IF st.next = <<>> THEN st
    ELSE scanLevels(scanCurrent([st EXCEPT !.next = <<>>, !.count = st.nextCount,
                                           !.nextCount = <<>>],
                                st.next))

\* length of the run of fields from position i that share fields[i]'s name
RECURSIVE RunLength(_, _, _)
RunLength(fs, i, advance) ==
    IF i + advance <= Len(fs) /\ fs[i + advance].name = fs[i].name
    THEN RunLength(fs, i, advance + 1)
    ELSE advance

\* the loop that collapses each run of equal names to its dominant field
RECURSIVE collapse(_, _)
collapse(fs, i) ==
    IF i > Len(fs) THEN <<>>
    ELSE LET advance == RunLength(fs, i, 1)
             dom == dominantField(SubSeq(fs, i, i + advance - 1))
         IN  (IF advance = 1 THEN <<fs[i]>>
              ELSE IF dom.ok THEN <<dom.field>> ELSE <<>>)
             \o collapse(fs, i + advance)

typeFields(t) ==
    LET st == scanLevels([next |-> <<[name |-> <<>>, index |-> <<>>, typ |-> t]>>,
                          count |-> <<>>, nextCount |-> <<>>, visited |-> {},
                          fields |-> <<>>])
    IN  sortByIndex(collapse(sortByName(st.fields), 1))

\* the cache holds typeFields(t) and nothing else, so a sequential caller
\* always receives typeFields(t)
cachedTypeFields(t) == typeFields(t)

-----------------------------------------------------------------------------
(* The decode binder: decodeState and its methods.                          *)
(*                                                                           *)
(* A method that mutates the decodeState and the destination returns the    *)
(* record [d |-> the decodeState afterwards, tv |-> the destination         *)
(* afterwards].  value, list, dictionary, integerStore and stringStore      *)
(* return a nil error on every path that does not decode a quoted field,    *)
(* and no field is ever quoted, so their error result is not carried.       *)
(* d.panic records that the goroutine has panicked: nothing runs after it.  *)

UnmarshalTypeError(value, typ, offset) ==
    [kind |-> "UnmarshalTypeError", Value |-> value, Type |-> typ, Offset |-> offset,
     Struct |-> <<>>, Field |-> <<>>]

InvalidUnmarshalError(why) == [kind |-> "InvalidUnmarshalError", Type |-> why]

ErrorString(msg) == [kind |-> "errorString", msg |-> msg]

CorruptInputError == [kind |-> "base64.CorruptInputError"]

\* the zero value of decodeState
ZeroDecodeState ==
    [data |-> <<>>, off |-> 0, opcode |-> "scanContinue", scan |-> ZeroScanner,
     errorContext |-> [Struct |-> NoType, Field |-> <<>>],
     savedError |-> NoErr, disallowUnknownFields |-> FALSE, panic |-> FALSE]

readIndex(d) == d.off - 1

init(d, bs) ==
    [d EXCEPT !.data = bs, !.off = 0, !.savedError = NoErr,
              !.errorContext = [Struct |-> NoType, Field |-> <<>>]]

addErrorContext(d, err) ==
    IF (d.errorContext.Struct # NoType \/ d.errorContext.Field # <<>>)
       /\ err.kind = "UnmarshalTypeError"
    THEN [err EXCEPT !.Struct = d.errorContext.Struct.name,
                     !.Field = d.errorContext.Field]
    ELSE err

saveError(d, err) ==
    IF d.savedError = NoErr
    THEN [d EXCEPT !.savedError = addErrorContext(d, err)]
    ELSE d

Panicked(d) == [d EXCEPT !.panic = TRUE]

\* the Go slice expression bs[a:b] (offsets from 0); it panics unless a <= b <= len
SliceOk(bs, a, b) == 0 <= a /\ a <= b /\ b <= Len(bs)

Slice(bs, a, b) == SubSeq(bs, a + 1, b)

RECURSIVE skipLoop(_, _, _)
skipLoop(d, depth, i) ==
    IF i < 0 \/ i >= Len(d.data) THEN Panicked(d)
    ELSE With(step(d.scan, d.data[i + 1]), LAMBDA r :
             IF r.op = "panic" THEN Panicked(d)
             ELSE IF Len(r.s.parseState) < depth
             THEN [d EXCEPT !.scan = r.s, !.off = i + 1, !.opcode = r.op]
             ELSE skipLoop([d EXCEPT !.scan = r.s], depth, i + 1))

skip(d) ==
    IF d.panic THEN d ELSE skipLoop(d, Len(d.scan.parseState), d.off)

scanNext(d) ==
    IF d.panic THEN d
    ELSE IF d.off < Len(d.data)
    THEN With(step([d.scan EXCEPT !.bytes = @ + 1], d.data[d.off + 1]), LAMBDA r :
             IF r.op = "panic" THEN Panicked(d)
             ELSE [d EXCEPT !.scan = r.s, !.opcode = r.op, !.off = @ + 1])
    ELSE With(eof(d.scan), LAMBDA r :
             [d EXCEPT !.scan = r.s, !.opcode = r.op, !.off = Len(d.data) + 1])

RECURSIVE scanWhileLoop(_, _, _)
scanWhileLoop(d, opc, i) ==
    IF i < Len(d.data)
    THEN With(step(d.scan, d.data[i + 1]), LAMBDA r :
             IF r.op = "panic" THEN Panicked(d)
             ELSE IF r.op # opc
             THEN [d EXCEPT !.scan = r.s, !.opcode = r.op, !.off = i + 1]
             ELSE scanWhileLoop([d EXCEPT !.scan = r.s], opc, i + 1))
    ELSE With(eof(d.scan), LAMBDA r :
             [d EXCEPT !.scan = r.s, !.opcode = r.op, !.off = Len(d.data) + 1])

scanWhile(d, opc) ==
    IF d.panic THEN d ELSE scanWhileLoop(d, opc, d.off)

-----------------------------------------------------------------------------
(* Number conversion *)

IsDigitRun(ds) == ds # <<>> /\ \A i \in 1..Len(ds) : ds[i] \in Digits

\* the canonical numeral of sign and magnitude
Numeral(neg, mag) ==
    LET m == StripZeros(mag)
    IN  IF neg /\ m # <<"0">> THEN <<"-">> \o m ELSE m

\* strconv.ParseInt(s, 10, 64)
ParseInt(s) ==
    LET neg == s # <<>> /\ s[1] = "-"
        mag == IF s # <<>> /\ s[1] \in {"-", "+"} THEN Tail(s) ELSE s
    IN  IF ~IsDigitRun(mag) THEN [ok |-> FALSE, n |-> <<"0">>]
        ELSE IF neg /\ DecLess(Pow2Digits(63), mag) THEN [ok |-> FALSE, n |-> <<"0">>]
        ELSE IF ~neg /\ ~DecLess(mag, Pow2Digits(63)) THEN [ok |-> FALSE, n |-> <<"0">>]
        ELSE [ok |-> TRUE, n |-> Numeral(neg, mag)]

\* strconv.ParseUint(s, 10, 64) on the text of an integer literal
ParseUintLiteral(s) ==
    IF ~IsDigitRun(s) \/ ~DecLess(s, Pow2Digits(64)) THEN [ok |-> FALSE, n |-> <<"0">>]
    ELSE [ok |-> TRUE, n |-> Numeral(FALSE, s)]

\* reflect.Value.OverflowInt(n) for a destination of the given kind
OverflowInt(kind, n) ==
    LET neg == n[1] = "-"
        mag == IF neg THEN Tail(n) ELSE n
        limit == Pow2Digits(Bits(kind) - 1)
    IN  IF neg THEN DecLess(limit, mag) ELSE ~DecLess(mag, limit)

\* reflect.Value.OverflowUint(n)
OverflowUint(kind, n) == ~DecLess(n, Pow2Digits(Bits(kind)))

DigitOf(n) == Chr[48 + n + 1]

\* numeral + 1 for an unsigned decimal numeral
RECURSIVE DecSucc(_)
DecSucc(ds) ==
    IF ds = <<>> THEN <<"1">>
    ELSE IF ds[Len(ds)] = "9" THEN Append(DecSucc(SubSeq(ds, 1, Len(ds) - 1)), "0")
    ELSE Append(SubSeq(ds, 1, Len(ds) - 1), DigitOf(DigitVal(ds[Len(ds)]) + 1))

\* numeral \div 2^k, bit by bit: in a halving each digit takes over the odd
\* unit of the digit before it
RECURSIVE DecShiftRight(_, _)
DecShiftRight(ds, k) ==
    IF k = 0 \/ ds = <<"0">> THEN ds
    ELSE IF k = 1
    THEN StripZeros([i \in 1..Len(ds) |->
             DigitOf(((IF i = 1 THEN 0 ELSE DigitVal(ds[i - 1]) % 2) * 10
                      + DigitVal(ds[i])) \div 2)])
    ELSE DecShiftRight(DecShiftRight(ds, k \div 2), k - k \div 2)

\* numeral * 2^k, bit by bit: in a doubling each digit takes over the carry
\* of the digit after it
RECURSIVE DecShiftLeft(_, _)
DecShiftLeft(ds, k) ==
    IF k = 0 \/ ds = <<"0">> THEN ds
    ELSE IF k = 1
    THEN (IF DigitVal(ds[1]) >= 5 THEN <<"1">> ELSE <<>>)
         \o [i \in 1..Len(ds) |->
               DigitOf((2 * DigitVal(ds[i])
                        + (IF i < Len(ds) /\ DigitVal(ds[i + 1]) >= 5 THEN 1 ELSE 0)) % 10)]
    ELSE DecShiftLeft(DecShiftLeft(ds, k \div 2), k - k \div 2)

\* the least k in lo..hi for which numeral \div 2^k is below 2^mantissa
RECURSIVE MantissaShift(_, _, _, _)
MantissaShift(ds, mantissa, lo, hi) ==
    IF lo >= hi THEN lo
    ELSE IF DecLess(DecShiftRight(ds, (lo + hi) \div 2), Pow2Digits(mantissa))
    THEN MantissaShift(ds, mantissa, lo, (lo + hi) \div 2)
    ELSE MantissaShift(ds, mantissa, (lo + hi) \div 2 + 1, hi)

\* the mantissa q = ds \div 2^k rounded to nearest, a tie to the even
\* mantissa: ds against the midpoint (2q + 1) * 2^(k-1) of q and q + 1
RoundedMantissa(ds, k, q) ==
    IF k = 0 THEN q
    ELSE With(DecShiftLeft(DecSucc(DecShiftLeft(q, 1)), k - 1), LAMBDA midpoint :
           IF DecLess(midpoint, ds) \/ (midpoint = ds /\ DigitVal(q[Len(q)]) % 2 = 1)
           THEN DecSucc(q)
           ELSE q)

\* the float of that size nearest to the natural number ds, ties to the
\* even mantissa: its value as a numeral, or ok = FALSE when it is out of
\* range. A float32 has a mantissa of 24 bits and is below 2^128, a float64
\* 53 bits and 2^1024; ds < 10^Len(ds) < 2^(4 * Len(ds)) bounds the shift.
NearestFloat(ds, bits) ==
    LET mantissa == IF bits = 32 THEN 24 ELSE 53
        exponents == IF bits = 32 THEN 128 ELSE 1024
    IN  IF DecLess(ds, Pow2Digits(mantissa)) THEN [ok |-> TRUE, n |-> ds]
        ELSE With(MantissaShift(ds, mantissa, 0, 4 * Len(ds)), LAMBDA k :
               With(RoundedMantissa(ds, k, DecShiftRight(ds, k)), LAMBDA q :
                 IF \/ k + mantissa > exponents
                    \/ q = Pow2Digits(mantissa) /\ k + mantissa = exponents
                 THEN [ok |-> FALSE, n |-> <<"0">>]
                 ELSE [ok |-> TRUE, n |-> DecShiftLeft(q, k)]))

\* strconv.ParseFloat(s, bits) on the text of an integer literal: the value
\* of the nearest float as a numeral, an error when the literal is not a
\* number or is out of the range of the floats of that size
ParseFloat(s, bits) ==
    LET neg == s # <<>> /\ s[1] = "-"
        mag == IF s # <<>> /\ s[1] \in {"-", "+"} THEN Tail(s) ELSE s
    IN  IF ~IsDigitRun(mag) THEN [ok |-> FALSE, n |-> <<"0">>]
        ELSE With(NearestFloat(StripZeros(mag), bits), LAMBDA f :
               IF ~f.ok THEN f ELSE [ok |-> TRUE, n |-> Numeral(neg, f.n)])

\* reflect.Value.OverflowFloat(n): never for a float64, beyond
\* math.MaxFloat32 = (2^24 - 1) * 2^104 for a float32
OverflowFloat(kind, n) ==
    /\ kind = "Float32"
    /\ DecLess(DecShiftLeft(<<"1", "6", "7", "7", "7", "2", "1", "5">>, 104),
               IF n[1] = "-" THEN Tail(n) ELSE n)

-----------------------------------------------------------------------------
(* base64.StdEncoding.Decode *)

Base64Alphabet ==
    <<"A","B","C","D","E","F","G","H","I","J","K","L","M","N","O","P",
      "Q","R","S","T","U","V","W","X","Y","Z","a","b","c","d","e","f",
      "g","h","i","j","k","l","m","n","o","p","q","r","s","t","u","v",
      "w","x","y","z","0","1","2","3","4","5","6","7","8","9","+","/">>

IsBase64(c) == \E n \in 1..Len(Base64Alphabet) : Base64Alphabet[n] = c

Sextet(c) == (CHOOSE n \in 1..Len(Base64Alphabet) : Base64Alphabet[n] = c) - 1

\* the input without the line breaks the decoder ignores
RECURSIVE WithoutLineBreaks(_)
WithoutLineBreaks(s) ==
    IF s = <<>> THEN <<>>
    ELSE IF s[1] \in {"x0A", "x0D"} THEN WithoutLineBreaks(Tail(s))
    ELSE <<s[1]>> \o WithoutLineBreaks(Tail(s))

\* one quantum of four characters; last says it is the final one
Base64Quantum(q, last) ==
    LET a == Sextet(q[1])
        b == Sextet(q[2])
        c == IF q[3] = "=" THEN 0 ELSE Sextet(q[3])
        e == IF q[4] = "=" THEN 0 ELSE Sextet(q[4])
        b1 == Chr[a * 4 + b \div 16 + 1]
        b2 == Chr[(b % 16) * 16 + c \div 4 + 1]
        b3 == Chr[(c % 4) * 64 + e + 1]
    IN  IF ~IsBase64(q[1]) \/ ~IsBase64(q[2]) THEN [ok |-> FALSE, out |-> <<>>]
        ELSE IF q[3] = "="
        THEN IF last /\ q[4] = "=" THEN [ok |-> TRUE, out |-> <<b1>>]
             ELSE [ok |-> FALSE, out |-> <<>>]
        ELSE IF ~IsBase64(q[3]) THEN [ok |-> FALSE, out |-> <<>>]
        ELSE IF q[4] = "="
        THEN IF last THEN [ok |-> TRUE, out |-> <<b1, b2>>]
             ELSE [ok |-> FALSE, out |-> <<>>]
        ELSE IF ~IsBase64(q[4]) THEN [ok |-> FALSE, out |-> <<>>]
        ELSE [ok |-> TRUE, out |-> <<b1, b2, b3>>]

RECURSIVE Base64Quanta(_)
Base64Quanta(s) ==
    IF s = <<>> THEN [ok |-> TRUE, out |-> <<>>]
    ELSE IF Len(s) < 4 THEN [ok |-> FALSE, out |-> <<>>]
    ELSE LET q == Base64Quantum(SubSeq(s, 1, 4), Len(s) = 4)
             r == Base64Quanta(SubSeq(s, 5, Len(s)))
         IN  IF q.ok /\ r.ok THEN [ok |-> TRUE, out |-> q.out \o r.out]
             ELSE [ok |-> FALSE, out |-> <<>>]

Base64Decode(s) == Base64Quanta(WithoutLineBreaks(s))

-----------------------------------------------------------------------------
(* Storing scalars *)

\* the decimal numeral of a natural number
RECURSIVE NatNumeral(_)
NatNumeral(n) ==
    IF n < 10 THEN <<DigitOf(n)>> ELSE Append(NatNumeral(n \div 10), DigitOf(n % 10))

\* the []byte b[:n] of SetBytes, whose backing array b has DecodedLen(len(s)) bytes
BytesValue(out, decodedLen) ==
    [nil |-> FALSE,
     arr |-> [i \in 1..decodedLen |->
                 IF i <= Len(out) THEN NatNumeral(Ord(out[i])) ELSE <<"0">>],
     len |-> Len(out)]

\* base64.StdEncoding.DecodedLen(n)
DecodedLen(n) == (n \div 4) * 3

QuotedTagMisuse(item, t) ==
    ErrorString(<<"invalid use of ,string struct tag, trying to unmarshal", item, t>>)

integerStore(d, item, tv) ==
    IF d.panic THEN [d |-> d, tv |-> tv]
    ELSE IF Len(item) = 0
    THEN [d |-> saveError(d, QuotedTagMisuse(item, tv.t)), tv |-> tv]
    ELSE
      LET v == indirect(tv)
          c == item[1]
          typeError == UnmarshalTypeError(<<"number">> \o item, v.t, readIndex(d))
      IN  IF c # "-" /\ c \notin Digits THEN [d |-> Panicked(d), tv |-> tv]
          ELSE CASE v.t.kind = "Interface" ->
                      LET n == ParseFloat(item, 64)
                      IN  IF ~n.ok
                          THEN [d  |-> saveError(d, UnmarshalTypeError(<<"number">> \o item,
                                                      Basic("Float64"), d.off)),
                                tv |-> tv]
                          ELSE IF v.t.numMethod # 0
                          THEN [d  |-> saveError(d, UnmarshalTypeError(<<"number">>, v.t,
                                                      readIndex(d))),
                                tv |-> tv]
                          ELSE [d |-> d, tv |-> Val(v.t, [dyn |-> "float64", val |-> n.n])]
                 [] v.t.kind \in {"Int", "Int8", "Int16", "Int32", "Int64"} ->
                      LET n == ParseInt(item)
                      IN  IF ~n.ok \/ OverflowInt(v.t.kind, n.n)
                          THEN [d |-> saveError(d, typeError), tv |-> tv]
                          ELSE [d |-> d, tv |-> Val(v.t, n.n)]
                 [] v.t.kind \in {"Uint", "Uint8", "Uint16", "Uint64", "Uintptr"} ->
                      LET n == ParseUintLiteral(item)
                      IN  IF ~n.ok \/ OverflowUint(v.t.kind, n.n)
                          THEN [d |-> saveError(d, typeError), tv |-> tv]
                          ELSE [d |-> d, tv |-> Val(v.t, n.n)]
                 [] v.t.kind \in {"Float32", "Float64"} ->
                      LET n == ParseFloat(item, Bits(v.t.kind))
                      IN  IF ~n.ok \/ OverflowFloat(v.t.kind, n.n)
                          THEN [d |-> saveError(d, typeError), tv |-> tv]
                          ELSE [d |-> d, tv |-> Val(v.t, n.n)]
                 [] OTHER ->
                      [d  |-> saveError(d, UnmarshalTypeError(<<"number">>, v.t, readIndex(d))),
                       tv |-> tv]

stringStore(d, item, tv) ==
    IF d.panic THEN [d |-> d, tv |-> tv]
    ELSE IF Len(item) = 0
    THEN [d |-> saveError(d, QuotedTagMisuse(item, tv.t)), tv |-> tv]
    ELSE
      LET v == indirect(tv)
          typeError == UnmarshalTypeError(<<"string">>, v.t, readIndex(d))
      IN  CASE v.t.kind = "Slice" ->
                 IF v.t.elem.kind # "Uint8"
                 THEN [d |-> saveError(d, typeError), tv |-> tv]
                 ELSE LET b == Base64Decode(item)
                      IN  IF ~b.ok THEN [d |-> saveError(d, CorruptInputError), tv |-> tv]
                          ELSE [d  |-> d,
                                tv |-> Val(v.t, BytesValue(b.out, DecodedLen(Len(item))))]
            [] v.t.kind = "String" -> [d |-> d, tv |-> Val(v.t, item)]
            [] v.t.kind = "Interface" ->
                 IF v.t.numMethod = 0
                 THEN [d |-> d, tv |-> Val(v.t, [dyn |-> "string", val |-> item])]
                 ELSE [d |-> saveError(d, typeError), tv |-> tv]
            [] OTHER -> [d |-> saveError(d, typeError), tv |-> tv]

-----------------------------------------------------------------------------
(* Binding values, lists and dictionaries *)

BeginOpcodes ==
    {"scanBeginInteger", "scanBeginList", "scanBeginDictionary", "scanBeginString"}

\* reflect.Value.Len of an array or slice
LenOf(tv) == IF tv.t.kind = "Array" THEN tv.t.len ELSE tv.v.len

\* reflect.Value.Index(i) of an array or slice, i from 0
Index(tv, i) ==
    IF tv.t.kind = "Array" THEN Val(tv.t.elem, tv.v[i + 1])
    ELSE Val(tv.t.elem, tv.v.arr[i + 1])

\* the array or slice with element i replaced
WithIndex(tv, i, x) ==
    IF tv.t.kind = "Array" THEN [tv EXCEPT !.v[i + 1] = x]
    ELSE [tv EXCEPT !.v.arr[i + 1] = x]

\* the slice made ready for element i: grown past its capacity, lengthened
growSlice(tv, i) ==
    LET cap == Len(tv.v.arr)
        newcap0 == cap + cap \div 2
        newcap == IF newcap0 < 4 THEN 4 ELSE newcap0
        grown == IF i >= cap
                 THEN [nil |-> FALSE,
                       arr |-> [k \in 1..newcap |->
                                   IF k <= tv.v.len THEN tv.v.arr[k] ELSE Zero(tv.t.elem)],
                       len |-> tv.v.len]
                 ELSE tv.v
    IN  Val(tv.t, IF i >= grown.len THEN [grown EXCEPT !.len = i + 1] ELSE grown)

\* the tail of list: a short array is zero-filled, a long slice cut, an
\* empty list becomes an empty non-nil slice
finishList(tv, i) ==
    LET cut == IF i < LenOf(tv)
               THEN IF tv.t.kind = "Array"
                    THEN Val(tv.t, [k \in 1..tv.t.len |->
                                       IF k <= i THEN tv.v[k] ELSE Zero(tv.t.elem)])
                    ELSE [tv EXCEPT !.v.len = i]
               ELSE tv
    IN  IF i = 0 /\ tv.t.kind = "Slice"
        THEN Val(tv.t, [nil |-> FALSE, arr |-> <<>>, len |-> 0])
        ELSE cut

\* the field the key selects: the first exact match, else the first match
\* up to case; 0 when there is none.  f is the loop's running candidate.
RECURSIVE matchField(_, _, _, _)
matchField(fields, key, i, f) ==
    IF i > Len(fields) THEN f
    ELSE IF fields[i].name = key THEN i
    ELSE IF f = 0 /\ equalFold(fields[i].name, key) THEN matchField(fields, key, i + 1, i)
    ELSE matchField(fields, key, i + 1, f)

\* the field of a struct value at the end of an index path
RECURSIVE FieldByIndex(_, _)
FieldByIndex(tv, index) ==
    IF index = <<>> THEN tv
    ELSE FieldByIndex(Val(tv.t.fields[index[1] + 1].Type, tv.v[index[1] + 1]), Tail(index))

RECURSIVE WithFieldByIndex(_, _, _)
WithFieldByIndex(v, index, x) ==
    IF index = <<>> THEN x
    ELSE [v EXCEPT ![index[1] + 1] = WithFieldByIndex(v[index[1] + 1], Tail(index), x)]

\* reflect.Value.SetMapIndex
SetMapIndex(mv, key, x) ==
    [nil |-> FALSE,
     m   |-> [k \in DOMAIN mv.m \cup {key} |-> IF k = key THEN x ELSE mv.m[k]]]

RECURSIVE value(_, _)
RECURSIVE list(_, _)
RECURSIVE listLoop(_, _, _)
RECURSIVE dictionary(_, _)
RECURSIVE dictionaryLoop(_, _, _, _)

value(d, tv) ==
    IF d.panic THEN [d |-> d, tv |-> tv]
    ELSE CASE d.opcode = "scanBeginDictionary" ->
                With(IF IsValid(tv) THEN dictionary(d, tv) ELSE [d |-> skip(d), tv |-> tv],
                     LAMBDA r : [d |-> scanNext(r.d), tv |-> r.tv])
           [] d.opcode = "scanBeginList" ->
                With(IF IsValid(tv) THEN list(d, tv) ELSE [d |-> skip(d), tv |-> tv],
                     LAMBDA r : [d |-> scanNext(r.d), tv |-> r.tv])
           [] d.opcode = "scanBeginInteger" ->
                With(scanNext(d), LAMBDA d1 :
                  IF d1.panic THEN [d |-> d1, tv |-> tv]
                  ELSE IF d1.opcode # "scanInteger" THEN [d |-> Panicked(d1), tv |-> tv]
                  ELSE
                    With(scanWhile(d1, "scanContinue"), LAMBDA d2 :
                      LET start == readIndex(d1)
                      IN  IF d2.panic THEN [d |-> d2, tv |-> tv]
                          ELSE IF ~IsValid(tv) THEN [d |-> scanNext(d2), tv |-> tv]
                          ELSE IF ~SliceOk(d2.data, start, readIndex(d2))
                          THEN [d |-> Panicked(d2), tv |-> tv]
                          ELSE With(integerStore(d2, Slice(d2.data, start, readIndex(d2)), tv),
                                    LAMBDA r : [d |-> scanNext(r.d), tv |-> r.tv])))
           [] d.opcode = "scanBeginString" ->
                With(scanWhile(d, "scanContinue"), LAMBDA d1 :
                  IF d1.panic THEN [d |-> d1, tv |-> tv]
                  ELSE IF d1.opcode # "scanString" THEN [d |-> Panicked(d1), tv |-> tv]
                  ELSE
                    With(scanWhile(d1, "scanContinue"), LAMBDA d2 :
                      LET start == readIndex(d1)
                      IN  IF d2.panic \/ ~IsValid(tv) THEN [d |-> d2, tv |-> tv]
                          ELSE IF ~SliceOk(d2.data, start, readIndex(d2))
                          THEN [d |-> Panicked(d2), tv |-> tv]
                          ELSE stringStore(d2, Slice(d2.data, start, readIndex(d2)), tv)))
           [] OTHER -> [d |-> Panicked(d), tv |-> tv]

\* the loop of list; the result also carries the element count i
listLoop(d, tv, i) ==
    IF d.panic \/ d.opcode = "scanEndList" THEN [d |-> d, tv |-> tv, i |-> i]
    ELSE IF d.opcode \notin BeginOpcodes THEN [d |-> Panicked(d), tv |-> tv, i |-> i]
    ELSE With(IF tv.t.kind = "Slice" THEN growSlice(tv, i) ELSE tv, LAMBDA v1 :
           IF i < LenOf(v1)
           THEN With(value(d, Index(v1, i)), LAMBDA r :
                  listLoop(r.d, WithIndex(v1, i, r.tv.v), i + 1))
           ELSE With(value(d, Invalid), LAMBDA r : listLoop(r.d, v1, i + 1)))

list(d, tv) ==
    IF d.panic THEN [d |-> d, tv |-> tv]
    ELSE LET v == indirect(tv)
         IN  CASE v.t.kind = "Interface" -> [d |-> Panicked(d), tv |-> tv]
               [] v.t.kind \in {"Array", "Slice"} ->
                    With(listLoop(scanNext(d), v, 0), LAMBDA r :
                      IF r.d.panic THEN [d |-> r.d, tv |-> r.tv]
                      ELSE [d |-> r.d, tv |-> finishList(r.tv, r.i)])
               [] OTHER ->
                    [d  |-> skip(saveError(d, UnmarshalTypeError(<<"list">>, v.t, d.off))),
                     tv |-> tv]

\* the loop of dictionary over the (key, value) pairs; original is
\* originalErrorContext
dictionaryLoop(d, tv, fields, original) ==
    IF d.panic \/ d.opcode = "scanEndDictionary" THEN [d |-> d, tv |-> tv]
    ELSE IF d.opcode # "scanBeginString" THEN [d |-> Panicked(d), tv |-> tv]
    ELSE
      With(scanWhile(d, "scanContinue"), LAMBDA d1 :
        IF d1.panic THEN [d |-> d1, tv |-> tv]
        ELSE IF d1.opcode # "scanString" THEN [d |-> Panicked(d1), tv |-> tv]
        ELSE
          With(scanWhile(d1, "scanContinue"), LAMBDA d2 :
            IF d2.panic THEN [d |-> d2, tv |-> tv]
            ELSE IF ~SliceOk(d2.data, readIndex(d1), readIndex(d2))
            THEN [d |-> Panicked(d2), tv |-> tv]
            ELSE
              LET key == Slice(d2.data, readIndex(d1), readIndex(d2))
                  isMap == tv.t.kind = "Map"
                  f == IF isMap THEN 0 ELSE matchField(fields, key, 1, 0)
                  subv == IF isMap THEN Val(tv.t.elem, Zero(tv.t.elem))
                          ELSE IF f # 0 THEN FieldByIndex(tv, fields[f].index)
                          ELSE Invalid
                  d3 == IF isMap THEN d2
                        ELSE IF f # 0
                        THEN [d2 EXCEPT !.errorContext =
                                 [Struct |-> tv.t, Field |-> fields[f].name]]
                        ELSE IF d2.disallowUnknownFields
                        THEN saveError(d2, ErrorString(<<"unknown field", key>>))
                        ELSE d2
              IN  With(value(d3, subv), LAMBDA r :
                    LET tv1 == IF isMap
                               THEN [tv EXCEPT !.v = SetMapIndex(tv.v, key, r.tv.v)]
                               ELSE IF f # 0
                               THEN [tv EXCEPT !.v = WithFieldByIndex(tv.v, fields[f].index,
                                                                       r.tv.v)]
                               ELSE tv
                    IN  IF r.d.panic THEN [d |-> r.d, tv |-> IF isMap THEN tv ELSE tv1]
                        ELSE IF r.d.opcode = "scanEndDictionary" THEN [d |-> r.d, tv |-> tv1]
                        ELSE dictionaryLoop([r.d EXCEPT !.errorContext = original],
                                            tv1, fields, original))))

dictionary(d, tv) ==
    IF d.panic THEN [d |-> d, tv |-> tv]
    ELSE
      LET v == indirect(tv)
          typeError == UnmarshalTypeError(<<"dictionary">>, v.t, d.off)
      IN  CASE v.t.kind = "Map" ->
                 IF v.t.key.kind # "String"
                 THEN [d |-> skip(saveError(d, typeError)), tv |-> tv]
                 ELSE dictionaryLoop(scanWhile(d, "scanContinue"),
                                     IF v.v.nil THEN [v EXCEPT !.v = [nil |-> FALSE, m |-> <<>>]]
                                     ELSE v,
                                     <<>>, d.errorContext)
            [] v.t.kind = "Struct" ->
                 dictionaryLoop(scanWhile(d, "scanContinue"), v, cachedTypeFields(v.t),
                                d.errorContext)
            [] OTHER -> [d |-> skip(saveError(d, typeError)), tv |-> tv]

-----------------------------------------------------------------------------
(* unmarshal and Unmarshal *)

\* The destination argument v of Unmarshal / Decode: ptr is "ok" for a non-nil
\* pointer (tv is what it points to), "nil" for the untyped nil, "nilptr" for
\* a nil pointer and "nonptr" for a value that is not a pointer.
Dest(ptr, tv) == [ptr |-> ptr, tv |-> tv]

\* the result of unmarshal: the error, the pointee afterwards, the decodeState
unmarshal(d, v) ==
    IF v.ptr # "ok"
    THEN [err |-> InvalidUnmarshalError(v.ptr), tv |-> v.tv, d |-> d]
    ELSE With(scanNext([d EXCEPT !.scan = reset(d.scan)]), LAMBDA d1 :
           IF d1.panic THEN [err |-> NoErr, tv |-> v.tv, d |-> d1]
           ELSE IF d1.scan.bytes = 0 THEN [err |-> ErrEOF, tv |-> v.tv, d |-> d1]
           ELSE With(value(d1, v.tv), LAMBDA r :
                  [err |-> r.d.savedError, tv |-> r.tv, d |-> r.d]))

\* the result of Unmarshal(data, v): the error returned, the pointee of v
\* afterwards, and whether the call panicked
Unmarshal(bs, v) ==
    With(checkValid(bs, ZeroDecodeState.scan), LAMBDA c :
      IF c.panic THEN [err |-> NoErr, tv |-> v.tv, panic |-> TRUE]
      ELSE IF c.err # NoErr THEN [err |-> c.err, tv |-> v.tv, panic |-> FALSE]
      ELSE With(unmarshal(init([ZeroDecodeState EXCEPT !.scan = c.scan], bs), v), LAMBDA r :
             [err |-> IF r.d.panic THEN NoErr ELSE r.err, tv |-> r.tv,
              panic |-> r.d.panic]))


\* the decodeState that Unmarshal(data, v) works on, as the call leaves it
UnmarshalState(bs, v) ==
    With(checkValid(bs, ZeroDecodeState.scan), LAMBDA c :
      IF c.panic \/ c.err # NoErr THEN [ZeroDecodeState EXCEPT !.scan = c.scan]
      ELSE unmarshal(init([ZeroDecodeState EXCEPT !.scan = c.scan], bs), v).d)
-----------------------------------------------------------------------------
(* The streaming Decoder *)

minRead == 512

\* The source r of a Decoder: the bytes it delivers, how many of them it has
\* delivered, and the error it returns once all are delivered (io.EOF, or a
\* failure of the source).
Reader(bytes, end) == [bytes |-> bytes, pos |-> 0, end |-> end]

Remaining(r) == Len(r.bytes) - r.pos

Min(a, b) == IF a <= b THEN a ELSE b

\* r.Read(p) with len(p) = room: the source delivers n more bytes (no more
\* than fit in p), and reports its end with the last of them when withEnd,
\* or else on the read after
Read(r, room, n, withEnd) ==
    IF Remaining(r) = 0 THEN [r |-> r, p |-> <<>>, err |-> r.end]
    ELSE LET k == Min(Min(n, room), Remaining(r))
         IN  [r   |-> [r EXCEPT !.pos = @ + k],
              p   |-> SubSeq(r.bytes, r.pos + 1, r.pos + k),
              err |-> IF withEnd /\ k = Remaining(r) THEN r.end ELSE NoErr]

\* buf is the slice dec.buf (its bytes), cap the capacity of its backing array
NewDecoder(r) ==
    [r |-> r, buf |-> <<>>, cap |-> 0, d |-> ZeroDecodeState, scanp |-> 0, scanned |-> 0,
     scan |-> ZeroScanner, err |-> NoErr, tokenState |-> "tokenTopValue"]

tokenValueAllowed(dec) == dec.tokenState = "tokenTopValue"

offset(dec) == dec.scanned + dec.scanp

\* refill with the compacting copy left out: the cursor returns to the start
\* of a buffer that still holds the bytes already consumed
refillNoCopy(dec, n, withEnd) ==
    LET d1 == IF dec.scanp > 0
              THEN [dec EXCEPT !.scanned = @ + dec.scanp, !.scanp = 0]
              ELSE dec
        d2 == IF d1.cap - Len(d1.buf) < minRead
              THEN [d1 EXCEPT !.cap = 2 * d1.cap + minRead]
              ELSE d1
        rd == Read(d2.r, d2.cap - Len(d2.buf), n, withEnd)
    IN  [dec |-> [d2 EXCEPT !.buf = @ \o rd.p, !.r = rd.r], err |-> rd.err]

\* refill that moves the cursor back without adding it to the discarded count
refillUncounted(dec, n, withEnd) ==
    LET d1 == IF dec.scanp > 0
              THEN [dec EXCEPT !.buf = SubSeq(@, dec.scanp + 1, Len(@)),
                               !.scanp = 0]
              ELSE dec
        d2 == IF d1.cap - Len(d1.buf) < minRead
              THEN [d1 EXCEPT !.cap = 2 * d1.cap + minRead]
              ELSE d1
        rd == Read(d2.r, d2.cap - Len(d2.buf), n, withEnd)
    IN  [dec |-> [d2 EXCEPT !.buf = @ \o rd.p, !.r = rd.r], err |-> rd.err]

\* dec.refill(): the decoder afterwards and the error of the Read
refill(dec, n, withEnd) ==
    LET d1 == IF dec.scanp > 0
              THEN [dec EXCEPT !.scanned = @ + dec.scanp,
                               !.buf = SubSeq(@, dec.scanp + 1, Len(@)),
                               !.scanp = 0]
              ELSE dec
        d2 == IF d1.cap - Len(d1.buf) < minRead
              THEN [d1 EXCEPT !.cap = 2 * d1.cap + minRead]
              ELSE d1
        rd == Read(d2.r, d2.cap - Len(d2.buf), n, withEnd)
    IN  [dec |-> [d2 EXCEPT !.buf = @ \o rd.p, !.r = rd.r], err |-> rd.err]

\* The inner loop of readValue over dec.buf[scanp:], at the byte of index at:
\* the scanner afterwards, how the loop ended ("value": break Input, "error":
\* the scanner's error, "more": the buffer ran out) and the local scanp.
RECURSIVE scanBuffer(_, _, _)
scanBuffer(scan, buf, at) ==
    IF at >= Len(buf) THEN [scan |-> scan, how |-> "more", scanp |-> Len(buf)]
    ELSE With(step([scan EXCEPT !.bytes = @ + 1], buf[at + 1]), LAMBDA r :
           IF r.op = "panic" THEN [scan |-> r.s, how |-> "panic", scanp |-> at]
           ELSE IF r.op = "scanEnd" THEN [scan |-> r.s, how |-> "value", scanp |-> at]
           ELSE IF r.op = "scanError" THEN [scan |-> r.s, how |-> "error", scanp |-> at]
           ELSE IF Len(r.s.parseState) = 0
           THEN [scan |-> r.s, how |-> "value", scanp |-> at + 1]
           ELSE scanBuffer(r.s, buf, at + 1))

\* One turn of the Input loop of readValue, from the local scanp and the err
\* of the last refill up to the return, the break or the next refill. how is
\* "value" (readValue returns n), "error" (it returns err), "refill" or
\* "panic"; exhausted tells that the source had reported io.EOF.
readInput(dec, scanp, err) ==
    With(scanBuffer(dec.scan, dec.buf, scanp), LAMBDA b :
      LET dec1 == [dec EXCEPT !.scan = b.scan]
          n == b.scanp - dec.scanp
      IN  CASE b.how = "panic" ->
                 [dec |-> dec1, how |-> "panic", n |-> 0, err |-> NoErr, exhausted |-> FALSE]
            [] b.how = "value" ->
                 [dec |-> dec1, how |-> "value", n |-> n, err |-> NoErr, exhausted |-> FALSE]
            [] b.how = "error" ->
                 [dec |-> [dec1 EXCEPT !.err = b.scan.err], how |-> "error", n |-> 0,
                  err |-> b.scan.err, exhausted |-> FALSE]
            [] OTHER ->
                 IF err = NoErr
                 THEN [dec |-> dec1, how |-> "refill", n |-> n, err |-> NoErr,
                       exhausted |-> FALSE]
                 ELSE IF err = ErrEOF /\ b.scan.bytes = 0
                 THEN [dec |-> dec1, how |-> "value", n |-> n, err |-> NoErr,
                       exhausted |-> TRUE]
                 ELSE LET e == IF err = ErrEOF THEN ErrUnexpectedEOF ELSE err
                      IN  [dec |-> [dec1 EXCEPT !.err = e], how |-> "error", n |-> 0,
                           err |-> e, exhausted |-> err = ErrEOF])

\* Decode once readValue has returned n: the value is handed to the binder
decodeValue(dec, n, v) ==
    With(unmarshal(init(dec.d, SubSeq(dec.buf, dec.scanp + 1, dec.scanp + n)), v), LAMBDA u :
      [dec |-> [dec EXCEPT !.d = u.d, !.scanp = @ + n], err |-> u.err, tv |-> u.tv,
       panic |-> u.d.panic])

-----------------------------------------------------------------------------
(* A Decoder in use: the Decoder, the call of Decode in progress and the
   calls that have returned *)

NoSpan == <<"none">>

\* before the first call
Fresh(dec) ==
    [dec |-> dec, pc |-> "idle", v |-> [ptr |-> "none"], n |-> 0, reads |-> 0,
     from |-> 0, bytes |-> 0, hist |-> <<>>]

\* the call in progress returns (or panics); span is the input handed to the
\* binder
Returned(c, dec, err, tv, panic, span, exhausted) ==
    [c EXCEPT !.dec = dec,
              !.pc = IF panic THEN "panicked" ELSE "idle",
              !.hist = Append(@, [v |-> c.v, err |-> err, tv |-> tv, panic |-> panic,
                                  reads |-> c.reads, from |-> c.from, to |-> offset(dec),
                                  span |-> span, exhausted |-> exhausted,
                                  stepped |-> dec.scan.bytes - c.bytes])]

\* Decode after a turn r of readValue's loop
afterInput(c, r) ==
    CASE r.how = "refill" -> [c EXCEPT !.dec = r.dec, !.pc = "refill", !.n = r.n]
      [] r.how = "error" -> Returned(c, r.dec, r.err, c.v.tv, FALSE, NoSpan, r.exhausted)
      [] r.how = "panic" -> Returned(c, r.dec, NoErr, c.v.tv, TRUE, NoSpan, FALSE)
      [] OTHER ->
           With(decodeValue(r.dec, r.n, c.v), LAMBDA u :
             Returned(c, u.dec, u.err, u.tv, u.panic,
                      SubSeq(r.dec.buf, r.dec.scanp + 1, r.dec.scanp + r.n), r.exhausted))

\* Decode without the check of dec.err on entry
DecodeUnlatched(c, v) ==
    LET c1 == [c EXCEPT !.v = v, !.reads = 0, !.from = offset(c.dec),
                        !.bytes = c.dec.scan.bytes]
    IN  IF ~tokenValueAllowed(c.dec)
        THEN Returned(c1, c.dec, SyntaxError(<<"not at beginning of value">>, offset(c.dec)),
                      v.tv, FALSE, NoSpan, FALSE)
        ELSE afterInput(c1, readInput([c.dec EXCEPT !.scan = reset(@)], c.dec.scanp, NoErr))

\* dec.Decode(v), up to its return or to the first refill of readValue
Decode(c, v) ==
    LET c1 == [c EXCEPT !.v = v, !.reads = 0, !.from = offset(c.dec),
                        !.bytes = c.dec.scan.bytes]
    IN  IF c.dec.err # NoErr
        THEN Returned(c1, c.dec, c.dec.err, v.tv, FALSE, NoSpan, FALSE)
        ELSE IF ~tokenValueAllowed(c.dec)
        THEN Returned(c1, c.dec, SyntaxError(<<"not at beginning of value">>, offset(c.dec)),
                      v.tv, FALSE, NoSpan, FALSE)
        ELSE afterInput(c1, readInput([c.dec EXCEPT !.scan = reset(@)], c.dec.scanp, NoErr))

\* readValue from its refill on: n := scanp - dec.scanp; err = dec.refill();
\* scanp = dec.scanp + n, and the next turn of the loop
afterRefill(c, n, withEnd) ==
    With(refill(c.dec, n, withEnd), LAMBDA f :
      afterInput([c EXCEPT !.reads = @ + 1], readInput(f.dec, f.dec.scanp + c.n, f.err)))

\* the call in progress run to its return over a source that delivers all it
\* has in one read
RECURSIVE wholeRead(_)
wholeRead(c) ==
    IF c.pc # "refill" THEN c ELSE wholeRead(afterRefill(c, Remaining(c.dec.r), FALSE))
-----------------------------------------------------------------------------
(* The wire grammar (spec section 6), as a recogniser that is independent   *)
(* of the scanner: the yardstick the validator is measured against.          *)

\* index just past the digit run that starts at i
RECURSIVE DigitRunEnd(_, _)
DigitRunEnd(bs, i) ==
    IF i <= Len(bs) /\ bs[i] \in Digits THEN DigitRunEnd(bs, i + 1) ELSE i

\* <int> is -?[0-9]+ without leading zeros and without -0; 0 when there is none at i
GrammarIntEnd(bs, i) ==
    LET j == IF i <= Len(bs) /\ bs[i] = "-" THEN i + 1 ELSE i
        k == DigitRunEnd(bs, j)
    IN  IF k = j THEN 0
        ELSE IF bs[j] = "0" /\ (k > j + 1 \/ j > i) THEN 0
        ELSE k

\* <len>:<bytes>; 0 when there is no complete string at i
GrammarStringEnd(bs, i) ==
    LET k == DigitRunEnd(bs, i)
    IN  IF k = i \/ (bs[i] = "0" /\ k > i + 1) THEN 0
        ELSE IF k > Len(bs) \/ bs[k] # ":" THEN 0
        ELSE LET n == DecVal(SubSeq(bs, i, k - 1))
             IN  IF k + n > Len(bs) THEN 0 ELSE k + n + 1

\* index just past the one value that starts at i; 0 when there is none
RECURSIVE GrammarValueEnd(_, _)
RECURSIVE GrammarListEnd(_, _)
RECURSIVE GrammarDictEnd(_, _)
GrammarValueEnd(bs, i) ==
    IF i > Len(bs) THEN 0
    ELSE CASE bs[i] = "i" ->
                LET k == GrammarIntEnd(bs, i + 1)
                IN  IF k # 0 /\ k <= Len(bs) /\ bs[k] = "e" THEN k + 1 ELSE 0
           [] bs[i] = "l" -> GrammarListEnd(bs, i + 1)
           [] bs[i] = "d" -> GrammarDictEnd(bs, i + 1)
           [] bs[i] \in Digits -> GrammarStringEnd(bs, i)
           [] OTHER -> 0

GrammarListEnd(bs, i) ==
    IF i > Len(bs) THEN 0
    ELSE IF bs[i] = "e" THEN i + 1
    ELSE LET k == GrammarValueEnd(bs, i)
         IN  IF k = 0 THEN 0 ELSE GrammarListEnd(bs, k)

GrammarDictEnd(bs, i) ==
    IF i > Len(bs) THEN 0
    ELSE IF bs[i] = "e" THEN i + 1
    ELSE IF bs[i] \notin Digits THEN 0
    ELSE LET k == GrammarStringEnd(bs, i)
             m == IF k = 0 THEN 0 ELSE GrammarValueEnd(bs, k)
         IN  IF m = 0 THEN 0 ELSE GrammarDictEnd(bs, m)

\* bs, in its entirety, is exactly one well-formed value
WellFormed(bs) == GrammarValueEnd(bs, 1) = Len(bs) + 1

\* some prefix of bs is one well-formed value
WellFormedPrefix(bs) == GrammarValueEnd(bs, 1) # 0

-----------------------------------------------------------------------------
(* Harness for the pure entry points Valid and Unmarshal: the initial state *)
(* draws the arguments, one action applies the function.                    *)

MaxLen == 5

ValidAlphabet == {"d", "l", "i", "e", "0", "1", ":", "-", "a"}

ByteSeqs(alphabet, n) == UNION {[1..k -> alphabet] : k \in 0..n}

NoArg == [form |-> "none"]

NoDst == [ptr |-> "none"]

NoRet == [kind |-> "none"]

NoDecoder == [pc |-> "unused"]

InitValid ==
    /\ unicode \in UnicodeVersions
    /\ op = "none"
    /\ arg = NoArg
    /\ data \in ByteSeqs(ValidAlphabet, MaxLen)
    /\ dst = NoDst
    /\ ret = NoRet
    /\ decoder = NoDecoder
    /\ reference = NoDecoder

DoValid ==
    /\ op = "none"
    /\ dst = NoDst
    /\ op' = "Valid"
    /\ ret' = [kind |-> "Valid", ok |-> Valid(data)]
    /\ UNCHANGED <<unicode, arg, data, dst, decoder, reference>>

NextValid == DoValid

SpecValid == InitValid /\ [][NextValid]_vars

\* C1: Valid(data) is true if and only if data, in its entirety, is exactly
\* one well-formed Bencode value of the wire grammar.
C1_ValidIffWholeValue ==
    op = "Valid" => (ret.ok <=> WellFormed(data))

\* What the validator does decide: some prefix of data is one well-formed value.
C1_ValidIffPrefixValue ==
    op = "Valid" => (ret.ok <=> WellFormedPrefix(data))

-----------------------------------------------------------------------------
(* Unmarshal on every short byte string *)

UnmarshalLen == 4

UnmarshalAlphabet == {"d", "l", "i", "e", "0", "1", ":"}

\* 20 nines and a colon: a string length beyond 64 bits
OverlongLength ==
    [i \in 1..21 |-> IF i = 21 THEN ":" ELSE "9"]

OldText == <<"o", "l", "d">>

IntSlice == SliceOf(Basic("Int"))

\* a non-nil []int holding one element, 7
OldSlice == [nil |-> FALSE, arr |-> << <<"7">> >>, len |-> 1]

UnmarshalDests ==
    { Dest("ok", Val(Basic("String"), OldText)),
      Dest("ok", Val(Basic("Uint8"), <<"7">>)),
      Dest("ok", Val(IntSlice, OldSlice)),
      Dest("nil", Invalid),
      Dest("nilptr", Val(Basic("String"), <<>>)),
      Dest("nonptr", Val(Basic("String"), OldText)) }

DoUnmarshal ==
    /\ op = "none"
    /\ dst # NoDst
    /\ op' = "Unmarshal"
    /\ ret' = Unmarshal(data, dst)
    /\ UNCHANGED <<unicode, arg, data, dst, decoder, reference>>

InitUnmarshal ==
    /\ unicode \in UnicodeVersions
    /\ op = "none"
    /\ arg = NoArg
    /\ data \in ByteSeqs(UnmarshalAlphabet, UnmarshalLen) \cup {OverlongLength}
    /\ dst \in UnmarshalDests
    /\ ret = NoRet
    /\ decoder = NoDecoder
    /\ reference = NoDecoder

NextUnmarshal == DoUnmarshal

SpecUnmarshal == InitUnmarshal /\ [][NextUnmarshal]_vars

\* the errors the scanner records: a SyntaxError, or strconv's range error
\* for a string length that does not fit 64 bits
ScannerErrorKinds == {"SyntaxError", "NumError"}

\* C9 (as claimed): Unmarshal with a nil or non-pointer destination returns
\* the invalid-destination error for every input, valid or not.
C9_InvalidDestinationFirst ==
    (op = "Unmarshal" /\ dst.ptr # "ok") => ret.err.kind = "InvalidUnmarshalError"

\* C10 (as claimed): when Valid(data) is false, Unmarshal(data, v) with a
\* valid pointer destination returns the syntax error, never a type-mismatch
\* error, and leaves the destination unmodified.
C10_InvalidInputIsSyntaxError ==
    (op = "Unmarshal" /\ dst.ptr = "ok" /\ ~Valid(data)) =>
        /\ ~ret.panic
        /\ ret.err.kind = "SyntaxError"
        /\ ret.tv = dst.tv

\* What holds: the error is the one the scanner recorded, of either kind, and
\* the destination is unmodified.
C10_InvalidInputIsScannerError ==
    (op = "Unmarshal" /\ dst.ptr = "ok" /\ ~Valid(data)) =>
        /\ ~ret.panic
        /\ ret.err.kind \in ScannerErrorKinds
        /\ ret.tv = dst.tv

-----------------------------------------------------------------------------
(* The wire form of a value (spec section 6), used to build inputs *)

WireString(body) == NatNumeral(Len(body)) \o <<":">> \o body

WireInt(numeral) == <<"i">> \o numeral \o <<"e">>

RECURSIVE Concat(_)
Concat(seqs) == IF seqs = <<>> THEN <<>> ELSE seqs[1] \o Concat(Tail(seqs))

WireList(items) == <<"l">> \o Concat(items) \o <<"e">>

\* pairs is a sequence of <<key, wire form of the value>>
WireDict(pairs) ==
    <<"d">> \o Concat([i \in 1..Len(pairs) |-> WireString(pairs[i][1]) \o pairs[i][2]])
            \o <<"e">>

-----------------------------------------------------------------------------
(* Unmarshal of one byte string into text, as a value and as a map key *)

MaxBody == 3

BodyAlphabet == {"a", ":", "1", "e"}

TextMap == MapOf(Basic("String"), Basic("Int"))

InitString ==
    /\ unicode \in UnicodeVersions
    /\ op = "none"
    /\ \E body \in ByteSeqs(BodyAlphabet, MaxBody), form \in {"value", "key"},
          old \in {<<>>, OldText} :
          /\ arg = [form |-> form, body |-> body]
          /\ data = IF form = "value" THEN WireString(body)
                    ELSE WireDict(<< <<body, WireInt(<<"1">>)>> >>)
          /\ dst = IF form = "value" THEN Dest("ok", Val(Basic("String"), old))
                   ELSE Dest("ok", Val(TextMap, Zero(TextMap)))
    /\ ret = NoRet
    /\ decoder = NoDecoder
    /\ reference = NoDecoder

NextString == DoUnmarshal

SpecString == InitString /\ [][NextString]_vars

\* the text Unmarshal stored: the destination itself, or the key of the one
\* map entry
StoredText ==
    IF arg.form = "value" THEN {ret.tv.v} ELSE DOMAIN ret.tv.v.m

\* C3 (as claimed): for every <len>:<bytes> with len >= 0 bound into a text
\* destination or read as a dictionary key, the stored text is exactly the
\* len body bytes (the empty text when len is 0) and no error is recorded.
C3_TextIsBody ==
    op = "Unmarshal" => (~ret.panic /\ ret.err = NoErr /\ StoredText = {arg.body})

\* What holds: the same for every string of at least one byte.
C3_NonEmptyTextIsBody ==
    (op = "Unmarshal" /\ arg.body # <<>>) =>
        (~ret.panic /\ ret.err = NoErr /\ StoredText = {arg.body})

\* What the code stores for the empty string: the ":" delimiter.
C3_EmptyTextIsDelimiter ==
    (op = "Unmarshal" /\ arg.body = <<>>) =>
        (~ret.panic /\ ret.err = NoErr /\ StoredText = {<<":">>})

-----------------------------------------------------------------------------
(* Unmarshal of one integer literal into an integer destination *)

\* numeral - 1 for an unsigned decimal numeral
RECURSIVE DecPredDigits(_)
DecPredDigits(ds) ==
    IF ds[Len(ds)] = "0" THEN Append(DecPredDigits(SubSeq(ds, 1, Len(ds) - 1)), "9")
    ELSE Append(SubSeq(ds, 1, Len(ds) - 1), DigitOf(DigitVal(ds[Len(ds)]) - 1))

DecPred(ds) == StripZeros(DecPredDigits(ds))

LimitBits == {7, 8, 15, 16, 31, 32, 63, 64}

\* the literals at the edges of every width, and a few small ones
IntLiterals ==
    { <<"0">>, <<"1">>, <<"-", "1">>, <<"4", "2">>, <<"-", "4", "2">> }
    \cup { Pow2Digits(k) : k \in LimitBits }
    \cup { DecPred(Pow2Digits(k)) : k \in LimitBits }
    \cup { <<"-">> \o Pow2Digits(k) : k \in LimitBits }
    \cup { <<"-">> \o DecSucc(Pow2Digits(k)) : k \in LimitBits }

FixedWidthKinds ==
    {"Int8", "Int16", "Int32", "Int64", "Uint8", "Uint16", "Uint32", "Uint64"}

InitInteger ==
    /\ unicode \in UnicodeVersions
    /\ op = "none"
    /\ \E lit \in IntLiterals, kind \in FixedWidthKinds, old \in {<<"0">>, <<"7">>} :
          /\ arg = [form |-> "integer", literal |-> lit, kind |-> kind]
          /\ data = WireInt(lit)
          /\ dst = Dest("ok", Val(Basic(kind), old))
    /\ ret = NoRet
    /\ decoder = NoDecoder
    /\ reference = NoDecoder

NextInteger == DoUnmarshal

SpecInteger == InitInteger /\ [][NextInteger]_vars

\* the literal denotes a value of the kind's range:
\* -2^(bits-1) .. 2^(bits-1)-1 when signed, 0 .. 2^bits-1 when unsigned
Representable(kind, lit) ==
    LET neg == lit[1] = "-"
        mag == IF neg THEN Tail(lit) ELSE lit
    IN  IF kind \in SignedKinds
        THEN IF neg THEN ~DecLess(Pow2Digits(Bits(kind) - 1), mag)
             ELSE DecLess(mag, Pow2Digits(Bits(kind) - 1))
        ELSE ~neg /\ DecLess(mag, Pow2Digits(Bits(kind)))

IntegerStoredOrRejected ==
    IF Representable(arg.kind, arg.literal)
    THEN ret.err = NoErr /\ ret.tv.v = arg.literal
    ELSE ret.err.kind = "UnmarshalTypeError" /\ ret.tv = dst.tv

\* C4 (as claimed): for every valid integer literal and every signed or
\* unsigned destination of 8, 16, 32 or 64 bits, a representable value is
\* stored exactly with no error, and any other records a type-mismatch
\* error and leaves the destination unchanged.
C4_IntegerStore ==
    op = "Unmarshal" => (~ret.panic /\ IntegerStoredOrRejected)

\* What holds: the same for every width but the unsigned 32-bit one.
C4_IntegerStoreButUint32 ==
    (op = "Unmarshal" /\ arg.kind # "Uint32") => (~ret.panic /\ IntegerStoredOrRejected)

\* What the code does for uint32: every literal is a type mismatch.
C4_Uint32AlwaysRejected ==
    (op = "Unmarshal" /\ arg.kind = "Uint32") =>
        (ret.err.kind = "UnmarshalTypeError" /\ ret.tv = dst.tv)

-----------------------------------------------------------------------------
(* Unmarshal of one dictionary into a record *)

MaxPairs == 3

\* the record of TestUnmarshal
TestRecord ==
    StructOf("", << StructField(<<"F", "o", "o">>, <<>>, Basic("String"), FALSE, TRUE),
                    StructField(<<"B", "a", "z">>, <<"b", "a", "r">>, IntSlice, FALSE, TRUE),
                    StructField(<<"I", "n", "t">>, <<>>, Basic("Uint8"), FALSE, TRUE) >>)

\* the same record with a 32-bit counter
WideRecord ==
    StructOf("", << StructField(<<"F", "o", "o">>, <<>>, Basic("String"), FALSE, TRUE),
                    StructField(<<"B", "a", "z">>, <<"b", "a", "r">>, IntSlice, FALSE, TRUE),
                    StructField(<<"I", "n", "t">>, <<>>, Basic("Uint32"), FALSE, TRUE) >>)

\* two fields whose resolved names differ only in case
FoldRecord ==
    StructOf("", << StructField(<<"F", "o", "o">>, <<>>, Basic("String"), FALSE, TRUE),
                    StructField(<<"O", "t", "h", "e", "r">>, <<"f", "o", "o">>,
                                Basic("String"), FALSE, TRUE) >>)

RecordTypes == {TestRecord, WideRecord, FoldRecord}

RecordKeys ==
    { <<"F", "o", "o">>, <<"f", "o", "o">>, <<"F", "O", "O">>, <<"b", "a", "r">>,
      <<"B", "A", "R">>, <<"I", "n", "t">>, <<"i", "n", "t">>, <<"B", "a", "z">> }

\* the name a declared field answers to: its annotation if it has one,
\* otherwise its declared name
ResolvedName(sf) == IF sf.Tag # <<>> THEN sf.Tag ELSE sf.Name

\* the declared field (from 1) a key selects, or 0: an exact match of the
\* resolved name first, the first case-insensitive match otherwise
FieldForKey(rec, key) ==
    LET n == Len(rec.fields)
        exact == {i \in 1..n : ResolvedName(rec.fields[i]) = key}
        folded == {i \in 1..n : equalFold(ResolvedName(rec.fields[i]), key)}
    IN  IF exact # {} THEN CHOOSE i \in exact : \A j \in exact : i <= j
        ELSE IF folded # {} THEN CHOOSE i \in folded : \A j \in folded : i <= j
        ELSE 0

TextOf(body) == [kind |-> "text", body |-> body]

Numbers(items) == [kind |-> "ints", items |-> items]

Number(numeral) == [kind |-> "int", numeral |-> numeral]

\* the values offered for a key: ones that fit the field the key selects
ValuesFor(rec, key) ==
    LET f == FieldForKey(rec, key)
    IN  IF f = 0 THEN {Number(<<"1">>)}
        ELSE IF rec.fields[f].Type.kind = "String" THEN {TextOf(<<>>), TextOf(<<"h", "i">>)}
        ELSE IF rec.fields[f].Type.kind = "Slice"
             THEN {Numbers(<<>>), Numbers(<< <<"1">>, <<"2">> >>)}
        ELSE {Number(<<"0">>), Number(<<"4", "2">>)}

Wire(x) ==
    CASE x.kind = "text" -> WireString(x.body)
      [] x.kind = "ints" -> WireList([i \in 1..Len(x.items) |-> WireInt(x.items[i])])
      [] x.kind = "int"  -> WireInt(x.numeral)

\* the pairs that may follow ps: a key not yet used that selects no field
\* already selected, with a value that fits
NextPairs(rec, ps) ==
    { [key |-> k, val |-> x] : k \in {k \in RecordKeys :
          \A i \in 1..Len(ps) :
              /\ ps[i].key # k
              /\ \/ FieldForKey(rec, k) = 0
                 \/ FieldForKey(rec, k) # FieldForKey(rec, ps[i].key)},
        x \in {TextOf(<<>>), TextOf(<<"h", "i">>), Numbers(<<>>), Numbers(<< <<"1">>, <<"2">> >>),
               Number(<<"0">>), Number(<<"4", "2">>), Number(<<"1">>)} }

\* sequences of exactly n pairs
RECURSIVE PairSeqsOfLen(_, _)
PairSeqsOfLen(rec, n) ==
    IF n = 0 THEN {<<>>}
    ELSE UNION { {Append(ps, p) : p \in {q \in NextPairs(rec, ps) :
                                            q.val \in ValuesFor(rec, q.key)}} :
                 ps \in PairSeqsOfLen(rec, n - 1) }

PairSeqs(rec) == UNION { PairSeqsOfLen(rec, n) : n \in 0..MaxPairs }

InitRecord ==
    /\ unicode \in UnicodeVersions
    /\ op = "none"
    /\ \E rec \in RecordTypes :
          \E ps \in PairSeqs(rec) :
              /\ arg = [form |-> "record", rec |-> rec, pairs |-> ps]
              /\ data = WireDict([i \in 1..Len(ps) |-> <<ps[i].key, Wire(ps[i].val)>>])
              /\ dst = Dest("ok", Val(rec, Zero(rec)))
    /\ ret = NoRet
    /\ decoder = NoDecoder
    /\ reference = NoDecoder

NextRecord == DoUnmarshal

SpecRecord == InitRecord /\ [][NextRecord]_vars

\* what a field holds, in the terms of the input: a text, a numeral, or the
\* elements of a sequence
Content(tv) ==
    CASE tv.t.kind = "String" -> TextOf(tv.v)
      [] tv.t.kind = "Slice"  -> Numbers(SubSeq(tv.v.arr, 1, tv.v.len))
      [] OTHER                -> Number(tv.v)

\* what declared field f must hold after the call: the value of the pair whose
\* key selects it, or its zero value when no key does
Expected(f) ==
    LET hits == {i \in 1..Len(arg.pairs) : FieldForKey(arg.rec, arg.pairs[i].key) = f}
    IN  IF hits = {} THEN Content(Val(arg.rec.fields[f].Type, Zero(arg.rec.fields[f].Type)))
        ELSE arg.pairs[CHOOSE i \in hits : TRUE].val

FieldsBound ==
    /\ ~ret.panic
    /\ ret.err = NoErr
    /\ \A f \in 1..Len(arg.rec.fields) :
          Content(Val(arg.rec.fields[f].Type, ret.tv.v[f])) = Expected(f)

\* C2 (as claimed): Unmarshal of a valid dictionary into a record binds each
\* key's value to the field whose resolved name matches the key (annotation
\* if present, otherwise the declared name; exactly first, case-insensitively
\* as fallback), whatever the order of the keys, and returns no error when
\* every value fits its field's type.
C2_KeysBindToFields == op = "Unmarshal" => FieldsBound

\* the inputs that meet neither the empty-string binding nor the uint32 store
AvoidsScalarFaults ==
    /\ \A i \in 1..Len(arg.pairs) : arg.pairs[i].val # TextOf(<<>>)
    /\ \A i \in 1..Len(arg.pairs) :
          LET f == FieldForKey(arg.rec, arg.pairs[i].key)
          IN  f # 0 => arg.rec.fields[f].Type.kind # "Uint32"

\* What holds: on those inputs every key is bound as claimed.
C2_KeysBindToFieldsButScalarFaults ==
    (op = "Unmarshal" /\ AvoidsScalarFaults) => FieldsBound

-----------------------------------------------------------------------------
(* Decoding a stream of values, read in chunks *)

MaxValues == 2

MaxCalls == 4

\* the values a stream is made of: i1e, 1:a, le and 0:
StreamItems == { Number(<<"1">>), TextOf(<<"a">>), Numbers(<<>>), TextOf(<<>>) }

\* what follows the last value: nothing, the start of a value, or a byte that
\* starts none
StreamTails == { <<>>, <<"i">>, <<"x">> }

StreamEnds == {ErrEOF, ErrRead}

StreamDests ==
    { Dest("ok", Val(Basic("String"), OldText)),
      Dest("ok", Val(Basic("Uint8"), <<"7">>)),
      Dest("ok", Val(IntSlice, OldSlice)),
      Dest("nil", Invalid) }

InitStream ==
    /\ unicode \in UnicodeVersions
    /\ op = "none"
    /\ \E k \in 0..MaxValues :
          \E xs \in [1..k -> StreamItems], tail \in StreamTails, end \in StreamEnds :
              /\ arg = [form |-> "stream", items |-> xs,
                        values |-> [i \in 1..k |-> Wire(xs[i])], tail |-> tail, end |-> end]
              /\ data = Concat([i \in 1..k |-> Wire(xs[i])]) \o tail
              /\ decoder = Fresh(NewDecoder(Reader(data, end)))
              /\ reference = Fresh(NewDecoder(Reader(data, end)))
    /\ dst \in StreamDests
    /\ ret = NoRet

\* a call of Decode(&v): on decoder, whose source delivers its bytes in chunks,
\* and on reference, whose source delivers them in one read
DoDecode ==
    /\ decoder.pc = "idle"
    /\ Len(decoder.hist) < MaxCalls
    /\ op' = "Decode"
    /\ decoder' = Decode(decoder, dst)
    /\ reference' = IF reference.pc = "idle" THEN wholeRead(Decode(reference, dst))
                    ELSE reference
    /\ UNCHANGED <<unicode, arg, data, dst, ret>>

\* the source of decoder answers the Read of refill with n bytes
DoRead(n, withEnd) ==
    /\ decoder.pc = "refill"
    /\ op' = "Read"
    /\ decoder' = afterRefill(decoder, n, withEnd)
    /\ UNCHANGED <<unicode, arg, data, dst, ret, reference>>

\* the sizes of the next chunk: any part of what the source still has; once it
\* has nothing the size is of no account
ChunkSizes(r) == IF Remaining(r) = 0 THEN {0} ELSE 1..Remaining(r)

NextStream ==
    \/ DoDecode
    \/ \E n \in ChunkSizes(decoder.dec.r), withEnd \in BOOLEAN :
          /\ withEnd => n = Remaining(decoder.dec.r)
          /\ DoRead(n, withEnd)

SpecStream == InitStream /\ [][NextStream]_vars

\* the calls of Decode that have returned
Hist == decoder.hist

Calls == 1..Len(Hist)

\* the errors of a Decode call: of the input, of the source, of the binding
\* and of the destination
ErrorKinds ==
    {"SyntaxError", "ReadError", "io.ErrUnexpectedEOF", "UnmarshalTypeError",
     "InvalidUnmarshalError"}

\* those that readValue stores in dec.err
LatchedKinds == {"SyntaxError", "ReadError", "io.ErrUnexpectedEOF"}

\* call j returned the error of call i at once: no read, the cursor where it
\* was, the destination as it was
SameErrorAtOnce(i, j) ==
    /\ Hist[j].err = Hist[i].err
    /\ ~Hist[j].panic
    /\ Hist[j].reads = 0
    /\ Hist[j].to = Hist[j].from
    /\ Hist[j].stepped = 0
    /\ Hist[j].tv = Hist[j].v.tv

\* C5 (as claimed): once a Decode call has returned an error (syntax, read,
\* unexpected end of input, type mismatch or invalid destination), every
\* later call returns that same error at once, without reading, advancing
\* the cursor or modifying its destination.
C5_AnyErrorPoisons ==
    \A i, j \in Calls :
        (i < j /\ Hist[i].err.kind \in ErrorKinds) => SameErrorAtOnce(i, j)

\* C5 (amended): the same for the errors of readValue: a syntax error, a
\* read error of the source, or an unexpected end of input.
C5_ReadErrorPoisons ==
    \A i, j \in Calls :
        (i < j /\ Hist[i].err.kind \in LatchedKinds) => SameErrorAtOnce(i, j)

\* a value was decoded, the next call met a syntax error, and the call after
\* that has returned it again
C5_Witness ==
    /\ Len(Hist) >= 3
    /\ Hist[1].err = NoErr
    /\ Hist[2].err.kind = "SyntaxError"
    /\ Hist[2].reads >= 1
    /\ Hist[3].err = Hist[2].err

\* C6 (as claimed): a call that finds the source exhausted with no byte of a
\* new value scanned in it returns io.EOF and produces no value, on the first
\* call and after any number of decoded values; one that finds it exhausted
\* after a byte of a value was scanned returns io.ErrUnexpectedEOF.
C6_ExhaustionReportsEnd ==
    \A i \in Calls :
        (Hist[i].exhausted /\ dst.ptr = "ok") =>
            IF Hist[i].stepped = 0
            THEN Hist[i].err = ErrEOF /\ Hist[i].tv = Hist[i].v.tv
            ELSE Hist[i].err = ErrUnexpectedEOF

\* What holds: the clean io.EOF is returned only while the Decoder has never
\* scanned a byte; after that every exhaustion is an unexpected end.
C6_CleanEndOnlyBeforeFirstByte ==
    \A i \in Calls :
        (Hist[i].exhausted /\ dst.ptr = "ok") =>
            IF Hist[i].from = 0 /\ Hist[i].stepped = 0
            THEN Hist[i].err = ErrEOF /\ Hist[i].tv = Hist[i].v.tv
            ELSE Hist[i].err = ErrUnexpectedEOF

\* what a call gave its caller
Result(h) == [err |-> h.err, tv |-> h.tv, panic |-> h.panic]

\* the offset of value i in a stream of values
RECURSIVE StartOf(_, _)
StartOf(vs, i) == IF i = 1 THEN 0 ELSE StartOf(vs, i - 1) + Len(vs[i - 1])

\* call i was handed exactly the bytes of value i and moved the cursor over
\* them and nothing else
FramedValue(i) ==
    /\ Hist[i].span = arg.values[i]
    /\ Hist[i].from = StartOf(arg.values, i)
    /\ Hist[i].to = Hist[i].from + Len(arg.values[i])

\* value x fits the destination d: a text into a string, a small number into
\* a uint8, a sequence of numbers into a []int
Fits(x, d) ==
    /\ d.ptr = "ok"
    /\ \/ x.kind = "text" /\ d.tv.t.kind = "String"
       \/ x.kind = "int" /\ d.tv.t.kind = "Uint8"
       \/ x.kind = "ints" /\ d.tv.t.kind = "Slice"

\* C7 (as claimed): over a source of k complete values with nothing between
\* them, the first k Decode calls all succeed and the i-th binds exactly the
\* i-th value: it consumes the bytes of that value, never fewer and never a
\* byte of the next, and the destination it fits holds that value.
C7_EachCallBindsItsValue ==
    arg.tail = <<>> =>
        \A i \in Calls : i <= Len(arg.items) =>
            /\ FramedValue(i)
            /\ Fits(arg.items[i], Hist[i].v) =>
                  /\ ~Hist[i].panic
                  /\ Hist[i].err = NoErr
                  /\ Content(Hist[i].tv) = arg.items[i]

\* What holds: call i consumes exactly the bytes of value i, returns no error
\* of the stream, and returns and stores what Unmarshal of value i alone does.
C7_EachCallFramesOneValue ==
    arg.tail = <<>> =>
        \A i \in Calls : i <= Len(arg.items) =>
            /\ FramedValue(i)
            /\ Result(Hist[i]) = Unmarshal(arg.values[i], Hist[i].v)
            /\ Hist[i].err.kind \notin LatchedKinds \cup {"io.EOF"}

\* What holds: C7 as claimed for every value but the empty string.
C7_EachCallBindsItsValueButEmptyText ==
    arg.tail = <<>> =>
        \A i \in Calls : (i <= Len(arg.items) /\ arg.items[i] # TextOf(<<>>)) =>
            /\ FramedValue(i)
            /\ Fits(arg.items[i], Hist[i].v) =>
                  /\ ~Hist[i].panic
                  /\ Hist[i].err = NoErr
                  /\ Content(Hist[i].tv) = arg.items[i]

\* C8: however the source splits the stream into chunks (a byte at a time,
\* the last chunk with or without the end of input), the results of the
\* Decode calls, values and errors, are those of the same calls over a
\* source that delivers the stream in a single read.
C8_ChunkingInvisible ==
    \A i \in Calls :
        /\ i <= Len(reference.hist)
        /\ Result(Hist[i]) = Result(reference.hist[i])

\* a value was assembled from three chunks or more, the last of which came
\* with the end of input, and a later call has returned an error
C8_Witness ==
    /\ Len(Hist) >= 2
    /\ \E i \in Calls : Hist[i].reads >= 3 /\ Hist[i].err = NoErr
    /\ \E i \in Calls : Hist[i].err.kind = "io.ErrUnexpectedEOF"
    /\ reference.hist[1].reads = 1
-----------------------------------------------------------------------------
(* The buffer of the Decoder *)

\* the number of bytes handed to the binder by the calls of hist
RECURSIVE SpanTotal(_)
SpanTotal(hist) ==
    IF hist = <<>> THEN 0
    ELSE SpanTotal(SubSeq(hist, 1, Len(hist) - 1))
         + (IF hist[Len(hist)].span = NoSpan THEN 0 ELSE Len(hist[Len(hist)].span))

\* the bytes consumed by the Decode calls that have returned
Consumed == SpanTotal(decoder.hist)

\* dec.buf[dec.scanp:]
Unscanned(dec) == SubSeq(dec.buf, dec.scanp + 1, Len(dec.buf))

\* C24: after any sequence of Decode calls and buffer refills and
\* compactions the buffer accounting of the decoder is exact: 0 <= scan
\* cursor <= buffer length <= capacity; discarded count + scan cursor equals
\* the number of bytes consumed by the completed Decode calls; and the
\* buffer from the scan cursor on equals, byte for byte and in source
\* order, the bytes read from the source that are not yet consumed.
C24_BufferExact ==
    /\ 0 <= decoder.dec.scanp
    /\ decoder.dec.scanp <= Len(decoder.dec.buf)
    /\ Len(decoder.dec.buf) <= decoder.dec.cap
    /\ offset(decoder.dec) = Consumed
    /\ Unscanned(decoder.dec) = SubSeq(data, Consumed + 1, decoder.dec.r.pos)

\* a second value has been decoded after a compaction and a growth of the
\* buffer in its call, and a byte read after it waits in the buffer
C24_Witness ==
    /\ decoder.pc = "idle"
    /\ Len(Hist) >= 2
    /\ Hist[2].from > 0
    /\ Hist[2].reads >= 2
    /\ Hist[2].err = NoErr
    /\ decoder.dec.scanned = Hist[2].from
    /\ decoder.dec.scanp > 0
    /\ decoder.dec.cap > minRead
    /\ Unscanned(decoder.dec) # <<>>
-----------------------------------------------------------------------------
(* Unmarshal of one dictionary or list whose values need not fit their      *)
(* destinations                                                             *)

MaxSiblings == 3

\* a dictionary value: ps is a sequence of <<key, value>>
Entries(ps) == [kind |-> "dict", pairs |-> ps]

RECURSIVE WireValue(_)
WireValue(x) ==
    IF x.kind = "dict"
    THEN WireDict([i \in 1..Len(x.pairs) |-> <<x.pairs[i][1], WireValue(x.pairs[i][2])>>])
    ELSE Wire(x)

InnerRecord ==
    StructOf("Inner", << StructField(<<"X">>, <<>>, Basic("String"), FALSE, TRUE) >>)

\* a record with a field of every shape: text, number, sequence,
\* dynamically typed, mapping and record
SiblingRecord ==
    StructOf("Siblings",
             << StructField(<<"A">>, <<>>, Basic("String"), FALSE, TRUE),
                StructField(<<"B">>, <<>>, Basic("Uint8"), FALSE, TRUE),
                StructField(<<"C">>, <<>>, IntSlice, FALSE, TRUE),
                StructField(<<"D">>, <<>>, InterfaceOf(0), FALSE, TRUE),
                StructField(<<"E">>, <<>>, TextMap, FALSE, TRUE),
                StructField(<<"F">>, <<>>, InnerRecord, FALSE, TRUE) >>)

SiblingKeys == << <<"A">>, <<"B">>, <<"C">>, <<"D">>, <<"E">>, <<"F">> >>

SiblingValues ==
    { TextOf(<<"x">>), Number(<<"5">>), Numbers(<< <<"1">> >>), Entries(<<>>) }

\* the destinations: a record, a nil []string, a [2]uint8 and a nil
\* map[string]uint8
SiblingDests ==
    { Dest("ok", Val(SiblingRecord, Zero(SiblingRecord))),
      Dest("ok", Val(SliceOf(Basic("String")), Zero(SliceOf(Basic("String"))))),
      Dest("ok", Val(ArrayOf(Basic("Uint8"), 2), << <<"7">>, <<"7">> >>)),
      Dest("ok", Val(MapOf(Basic("String"), Basic("Uint8")),
                     Zero(MapOf(Basic("String"), Basic("Uint8"))))) }

\* the sequences of n items whose keys are numbers of SiblingKeys, increasing
RECURSIVE KeyedItems(_, _)
KeyedItems(n, from) ==
    IF n = 0 THEN {<<>>}
    ELSE UNION { { <<[key |-> SiblingKeys[k], val |-> x]>> \o rest :
                     x \in SiblingValues, rest \in KeyedItems(n - 1, k + 1) } :
                 k \in from..Len(SiblingKeys) }

\* the sequences of n list elements; the key of an element is its position
ListedItems(n) ==
    { [i \in 1..n |-> [key |-> i, val |-> xs[i]]] : xs \in [1..n -> SiblingValues] }

ItemsFor(t) ==
    UNION { IF t.kind \in {"Slice", "Array"} THEN ListedItems(n) ELSE KeyedItems(n, 1) :
            n \in 0..MaxSiblings }

WireItems(t, items) ==
    IF t.kind \in {"Slice", "Array"}
    THEN WireList([i \in 1..Len(items) |-> WireValue(items[i].val)])
    ELSE WireDict([i \in 1..Len(items) |-> <<items[i].key, WireValue(items[i].val)>>])

InitSiblings ==
    /\ unicode \in UnicodeVersions
    /\ op = "none"
    /\ dst \in SiblingDests
    /\ \E items \in ItemsFor(dst.tv.t) :
          /\ arg = [form |-> "siblings", items |-> items]
          /\ data = WireItems(dst.tv.t, items)
    /\ ret = NoRet
    /\ decoder = NoDecoder
    /\ reference = NoDecoder

\* Unmarshal(data, &v); decoder keeps the decodeState of the call
DoBind ==
    /\ op = "none"
    /\ dst # NoDst
    /\ op' = "Unmarshal"
    /\ ret' = Unmarshal(data, dst)
    /\ decoder' = [pc |-> "bound", d |-> UnmarshalState(data, dst)]
    /\ UNCHANGED <<unicode, arg, data, dst, reference>>

NextSiblings == DoBind

SpecSiblings == InitSiblings /\ [][NextSiblings]_vars

\* the type of the destination of item i of a container of type t: a field,
\* an element, or none (an element past the end of an array)
SlotType(t, items, i) ==
    CASE t.kind = "Struct" -> t.fields[FieldForKey(t, items[i].key)].Type
      [] t.kind = "Map" -> t.elem
      [] t.kind = "Slice" -> t.elem
      [] t.kind = "Array" -> IF i <= t.len THEN t.elem ELSE NoType

\* the shapes of section 4.3: a text into a text, a number into a number, a
\* list into a sequence, a dictionary into a mapping or a record; a text or
\* a number also into a dynamically typed destination
FitsType(x, t) ==
    CASE x.kind = "text" -> t.kind \in {"String", "Interface"}
      [] x.kind = "int" ->
           t.kind \in SignedKinds \cup UnsignedKinds \cup FloatKinds \cup {"Interface"}
      [] x.kind = "ints" -> t.kind \in {"Slice", "Array"}
      [] x.kind = "dict" -> t.kind \in {"Map", "Struct"}

\* a value that fits a destination of type t
FittingValue(t) ==
    CASE t.kind \in {"String", "Interface"} -> TextOf(<<"x">>)
      [] t.kind \in {"Slice", "Array"} -> Numbers(<< <<"1">> >>)
      [] t.kind \in {"Map", "Struct"} -> Entries(<<>>)
      [] OTHER -> Number(<<"5">>)

\* the items that have a destination they do not fit
MisfitsOf(t, items) ==
    { i \in 1..Len(items) :
        /\ SlotType(t, items, i) # NoType
        /\ ~FitsType(items[i].val, SlotType(t, items, i)) }

Misfits == MisfitsOf(dst.tv.t, arg.items)

\* the input with every misfit replaced by a value that fits
FittedItems ==
    [i \in 1..Len(arg.items) |->
        IF i \in Misfits
        THEN [key |-> arg.items[i].key,
              val |-> FittingValue(SlotType(dst.tv.t, arg.items, i))]
        ELSE arg.items[i]]

Masked == <<"masked">>

\* the destination without the slots of the misfits
Siblings(tv) ==
    CASE tv.t.kind = "Struct" ->
           [f \in 1..Len(tv.t.fields) |->
               IF \E i \in Misfits : FieldForKey(tv.t, arg.items[i].key) = f
               THEN Masked ELSE tv.v[f]]
      [] tv.t.kind = "Map" ->
           [k \in DOMAIN tv.v.m |->
               IF \E i \in Misfits : arg.items[i].key = k THEN Masked ELSE tv.v.m[k]]
      [] tv.t.kind = "Slice" ->
           [i \in 1..tv.v.len |-> IF i \in Misfits THEN Masked ELSE tv.v.arr[i]]
      [] tv.t.kind = "Array" ->
           [i \in 1..tv.t.len |-> IF i \in Misfits THEN Masked ELSE tv.v[i]]

\* the call went through the whole input: the cursor is at its end and the
\* scanner has seen the end of the value
CursorAtEnd ==
    /\ ~decoder.d.panic
    /\ readIndex(decoder.d) = Len(data)
    /\ decoder.d.opcode = "scanEnd"

SiblingsAsIfFitted ==
    /\ ~ret.panic
    /\ ret.err.kind = "UnmarshalTypeError"
    /\ CursorAtEnd
    /\ Siblings(ret.tv) = Siblings(Unmarshal(WireItems(dst.tv.t, FittedItems), dst).tv)

\* C11 (as claimed): a type mismatch on one value does not abort the decode:
\* every sibling value of the enclosing dictionary or list is bound exactly
\* as it would be if the mismatching value had fitted, the byte cursor ends
\* at the end of the input value, and the call returns a type-mismatch error.
C11_MismatchKeepsSiblings ==
    (op = "Unmarshal" /\ Misfits # {}) => SiblingsAsIfFitted

\* the misfits that are a list on a dynamically typed destination
ListsOnInterface ==
    { i \in Misfits : /\ arg.items[i].val.kind = "ints"
                      /\ SlotType(dst.tv.t, arg.items, i).kind = "Interface" }

\* What holds: C11 for every mismatch but that of a list on a dynamically
\* typed destination.
C11_MismatchKeepsSiblingsButListOnInterface ==
    (op = "Unmarshal" /\ Misfits # {} /\ ListsOnInterface = {}) => SiblingsAsIfFitted

\* the input in which every value fits is bound without error
FittedBindsClean ==
    (op = "Unmarshal" /\ Misfits = {}) => (~ret.panic /\ ret.err = NoErr /\ CursorAtEnd)
-----------------------------------------------------------------------------
(* Two calls of Decode on one Decoder, over values that need not fit *)

\* the second value of the stream: the first again, or the first with every
\* misfit replaced by a value that fits
SecondValues == {"same", "fitted"}

FittedOf(t, items) ==
    [i \in 1..Len(items) |->
        IF i \in MisfitsOf(t, items)
        THEN [key |-> items[i].key, val |-> FittingValue(SlotType(t, items, i))]
        ELSE items[i]]

InitErrors ==
    /\ unicode \in UnicodeVersions
    /\ op = "none"
    /\ dst \in SiblingDests
    /\ \E items \in ItemsFor(dst.tv.t), second \in SecondValues :
          /\ arg = [form |-> "calls",
                    values |-> <<items, IF second = "same" THEN items
                                        ELSE FittedOf(dst.tv.t, items)>>]
          /\ data = WireItems(dst.tv.t, arg.values[1]) \o WireItems(dst.tv.t, arg.values[2])
    /\ decoder = Fresh(NewDecoder(Reader(data, ErrEOF)))
    /\ reference = Fresh(NewDecoder(Reader(data, ErrEOF)))
    /\ ret = NoRet

\* the source delivers all it has in one read, with or without its end
NextErrors ==
    \/ DoDecode
    \/ \E withEnd \in BOOLEAN : DoRead(Remaining(decoder.dec.r), withEnd)

SpecErrors == InitErrors /\ [][NextErrors]_vars

\* the number of bytes of item i of a container before its value
KeyLength(t, items, i) ==
    IF t.kind \in {"Slice", "Array"} THEN 0 ELSE Len(WireString(items[i].key))

\* the offset of the first byte of the value of item i in the wire form
RECURSIVE ValueStart(_, _, _)
ValueStart(t, items, i) ==
    IF i = 1 THEN 1 + KeyLength(t, items, 1)
    ELSE ValueStart(t, items, i - 1) + Len(WireValue(items[i - 1].val))
         + KeyLength(t, items, i)

\* the error the binder records for misfit i: the kind of the value, the
\* type of the destination, where the binder stood, and the record and field
MismatchOf(t, items, i) ==
    LET x == items[i].val
        start == ValueStart(t, items, i)
        e == CASE x.kind = "text" ->
                    UnmarshalTypeError(<<"string">>, SlotType(t, items, i),
                                       start + Len(WireValue(x)))
               [] x.kind = "int" ->
                    UnmarshalTypeError(<<"number">>, SlotType(t, items, i),
                                       start + Len(WireValue(x)) - 1)
               [] x.kind = "ints" ->
                    UnmarshalTypeError(<<"list">>, SlotType(t, items, i), start + 1)
               [] x.kind = "dict" ->
                    UnmarshalTypeError(<<"dictionary">>, SlotType(t, items, i), start + 1)
    IN  IF t.kind = "Struct"
        THEN [e EXCEPT !.Struct = t.name, !.Field = items[i].key]
        ELSE e

FirstOf(S) == CHOOSE i \in S : \A j \in S : i <= j

\* what a call over items returns: nil when every value fits, otherwise the
\* error of the first misfit
FirstErrorOf(t, items) ==
    IF MisfitsOf(t, items) = {} THEN NoErr
    ELSE MismatchOf(t, items, FirstOf(MisfitsOf(t, items)))

\* C12 (as claimed): when several binding errors occur during one decode
\* call, the error returned is the one recorded first in input order; later
\* errors never replace it, and it is cleared at the start of the next call
\* (which returns the first error of its own value, or none).
C12_FirstErrorWins ==
    \A i \in Calls : i <= Len(arg.values) =>
        /\ ~Hist[i].panic
        /\ Hist[i].err = FirstErrorOf(dst.tv.t, arg.values[i])

\* the values in which a list meets a dynamically typed destination
HasListOnInterface(t, items) ==
    \E i \in 1..Len(items) :
        items[i].val.kind = "ints" /\ SlotType(t, items, i).kind = "Interface"

\* What holds: C12 for every value in which no list meets a dynamically
\* typed destination.
C12_FirstErrorWinsButListOnInterface ==
    \A i \in Calls :
        (i <= Len(arg.values) /\ ~HasListOnInterface(dst.tv.t, arg.values[i])) =>
            /\ ~Hist[i].panic
            /\ Hist[i].err = FirstErrorOf(dst.tv.t, arg.values[i])
-----------------------------------------------------------------------------
(* A list that meets a destination that is not a sequence *)

\* the items that are a list on a destination that is not a sequence
ListMisfits == { i \in Misfits : arg.items[i].val.kind = "ints" }

\* the list is reported when it is the first misfit, its bytes are skipped,
\* and the values after it are bound
ListSkipped ==
    /\ ~ret.panic
    /\ ret.err = FirstErrorOf(dst.tv.t, arg.items)
    /\ (FirstOf(Misfits) \in ListMisfits => ret.err.Value = <<"list">>)
    /\ SiblingsAsIfFitted

\* C19 (as claimed): binding a list to any destination that is not a
\* sequence (scalar, text, mapping, record or dynamically typed) records a
\* type-mismatch error, skips the bytes of the list so that the cursor
\* stands just past its closing byte, and lets the decode continue with the
\* next value; no fault is raised.
C19_ListOnNonSequence ==
    (op = "Unmarshal" /\ ListMisfits # {}) => ListSkipped

\* What holds: C19 for the scalar, text, mapping and record destinations.
C19_ListOnNonSequenceButInterface ==
    (op = "Unmarshal" /\ ListMisfits # {} /\ ListsOnInterface = {}) => ListSkipped

\* a list on a dynamically typed destination raises a fault
C19_ListOnInterfaceFaults ==
    (op = "Unmarshal" /\ ListsOnInterface # {}) => ret.panic
-----------------------------------------------------------------------------
(* Unmarshal of one byte string into a []byte *)

MaxBytes == 4

\* letters of the base64 alphabet, its padding, and bytes outside it
BytesAlphabet == {"Q", "U", "=", "x80", ":"}

ByteSlice == SliceOf(Basic("Uint8"))

\* a non-nil []byte holding one byte, 7
OldBytes == [nil |-> FALSE, arr |-> << <<"7">> >>, len |-> 1]

InitBytes ==
    /\ unicode \in UnicodeVersions
    /\ op = "none"
    /\ \E body \in ByteSeqs(BytesAlphabet, MaxBytes), old \in {Zero(ByteSlice), OldBytes} :
          /\ arg = [form |-> "bytes", body |-> body]
          /\ data = WireString(body)
          /\ dst = Dest("ok", Val(ByteSlice, old))
    /\ ret = NoRet
    /\ decoder = NoDecoder
    /\ reference = NoDecoder

NextBytes == DoUnmarshal

SpecBytes == InitBytes /\ [][NextBytes]_vars

\* the bytes a []byte holds
StoredBytes(tv) == SubSeq(tv.v.arr, 1, tv.v.len)

\* a byte string as the elements of a []byte
AsBytes(s) == [i \in 1..Len(s) |-> NatNumeral(Ord(s[i]))]

\* C13 (as claimed): a Bencode string bound into a []byte destination stores
\* exactly the raw body bytes of the string, with no transcoding, for every
\* body content, and records no error.
C13_BytesAreBody ==
    op = "Unmarshal" =>
        /\ ~ret.panic
        /\ ret.err = NoErr
        /\ StoredBytes(ret.tv) = AsBytes(arg.body)

\* the text the binder slices for the string: its body, or the delimiter
\* when the body is empty
SlicedText == IF arg.body = <<>> THEN <<":">> ELSE arg.body

\* What holds: the binder stores the base64 decoding of the text it sliced,
\* and when that text is not base64 it returns the error of the decoding and
\* leaves the destination as it was.
C13_BytesAreBase64Decoded ==
    op = "Unmarshal" =>
        /\ ~ret.panic
        /\ IF Base64Decode(SlicedText).ok
           THEN /\ ret.err = NoErr
                /\ StoredBytes(ret.tv) = AsBytes(Base64Decode(SlicedText).out)
           ELSE /\ ret.err = CorruptInputError
                /\ ret.tv = dst.tv
-----------------------------------------------------------------------------
(* Unmarshal of one list of numbers or of texts into a slice or an array *)

MaxElems == 5

MaxCap == 3

ElemTypes == {Basic("Int"), Basic("String")}

\* the elements of a list bound to a sequence of that element type
ElemValues(t) ==
    IF t.kind = "String" THEN {TextOf(<<>>), TextOf(<<"a">>), TextOf(<<"b">>)}
    ELSE {Number(<<"1">>), Number(<<"2">>), Number(<<"3">>)}

\* what the backing array of a destination holds before the call (the
\* numbers 7, 8, 9 or the texts "7", "8", "9")
OldElems == << <<"7">>, <<"8">>, <<"9">> >>

\* the slice of that length and capacity over a backing array holding OldElems
SliceWith(len, cap) == [nil |-> FALSE, arr |-> SubSeq(OldElems, 1, cap), len |-> len]

ListDests ==
    UNION { {Dest("ok", Val(SliceOf(t), Zero(SliceOf(t))))}
            \cup {Dest("ok", Val(SliceOf(t), SliceWith(len, cap))) :
                     len \in 0..MaxCap, cap \in 0..MaxCap}
            \cup {Dest("ok", Val(ArrayOf(t, m), SubSeq(OldElems, 1, m))) : m \in 0..MaxCap} :
            t \in ElemTypes }

InitList ==
    /\ unicode \in UnicodeVersions
    /\ op = "none"
    /\ dst \in {v \in ListDests : v.tv.t.kind = "Slice" => v.tv.v.len <= Len(v.tv.v.arr)}
    /\ \E n \in 0..MaxElems :
          \E elems \in [1..n -> ElemValues(dst.tv.t.elem)] :
              /\ arg = [form |-> "list", elems |-> elems]
              /\ data = WireList([i \in 1..n |-> Wire(elems[i])])
    /\ ret = NoRet
    /\ decoder = NoDecoder
    /\ reference = NoDecoder

NextList == DoBind

SpecList == InitList /\ [][NextList]_vars

\* an element of a sequence in the terms of the input
ElemOf(t, raw) == IF t.kind = "String" THEN TextOf(raw) ELSE Number(raw)

ListBound ==
    /\ ~ret.panic
    /\ ret.err = NoErr
    /\ CursorAtEnd
    /\ IF ret.tv.t.kind = "Slice"
       THEN /\ ret.tv.v.len = Len(arg.elems)
            /\ ret.tv.v.len <= Len(ret.tv.v.arr)
            /\ \A k \in 1..ret.tv.v.len :
                  ElemOf(ret.tv.t.elem, ret.tv.v.arr[k]) = arg.elems[k]
       ELSE /\ Len(ret.tv.v) = ret.tv.t.len
            /\ \A k \in 1..ret.tv.t.len :
                  ElemOf(ret.tv.t.elem, ret.tv.v[k]) =
                      IF k <= Len(arg.elems) THEN arg.elems[k]
                      ELSE ElemOf(ret.tv.t.elem, Zero(ret.tv.t.elem))

\* C14 (as claimed): binding a list of N elements into a slice of any initial
\* length and capacity yields a slice of length exactly N holding the N
\* elements in input order; binding into an array of size M stores the first
\* min(N, M) elements in order, zero-fills the slots from N on when N < M,
\* and consumes and discards the elements from M on when N > M.
C14_ListBinding == op = "Unmarshal" => ListBound

\* the lists with an empty text among the elements that have a slot
HasEmptyText ==
    \E k \in 1..Len(arg.elems) :
        /\ arg.elems[k] = TextOf(<<>>)
        /\ dst.tv.t.kind = "Array" => k <= dst.tv.t.len

\* What holds: C14 for every list but those with an empty text to store.
C14_ListBindingButEmptyText == (op = "Unmarshal" /\ ~HasEmptyText) => ListBound

\* What holds: the length of the sequence, whatever the elements: a slice
\* has as many elements as the list, an array keeps its size.
C14_ListLength ==
    op = "Unmarshal" =>
        /\ ~ret.panic
        /\ ret.err = NoErr
        /\ CursorAtEnd
        /\ IF ret.tv.t.kind = "Slice" THEN ret.tv.v.len = Len(arg.elems)
           ELSE Len(ret.tv.v) = ret.tv.t.len
-----------------------------------------------------------------------------
(* The scanner driven one operation at a time: step, eof and reset *)

MaxSteps == 5

StepAlphabet == {"d", "l", "i", "e", "0", "1", "9", ":", "-", "x"}

\* 20 nines: a string length that does not fit 64 bits
Nines == [i \in 1..20 |-> "9"]

StepPrefixes == {<<>>, Nines}

\* the scanner after the steps over bs, each counted as its callers count it
RECURSIVE StepsOver(_, _)
StepsOver(s, bs) ==
    IF bs = <<>> THEN s
    ELSE StepsOver(step([s EXCEPT !.bytes = @ + 1], bs[1]).s, Tail(bs))

Scanning(s) == [pc |-> "scanning", scan |-> s]

\* arg.since counts the steps since the last reset, arg.clean tells that no
\* operation since then returned an error and eof was not called, and
\* arg.pristine that the remaining-byte counter was zero when reset was called
InitScanner ==
    /\ unicode \in UnicodeVersions
    /\ op = "none"
    /\ \E prefix \in StepPrefixes :
          /\ arg = [form |-> "scanner", prefix |-> prefix, byte |-> "", since |-> Len(prefix),
                    clean |-> TRUE, pristine |-> TRUE]
          /\ decoder = Scanning(StepsOver(reset(ZeroScanner), prefix))
          /\ reference = Scanning(StepsOver(reset(ZeroScanner), prefix))
    /\ data = <<>>
    /\ dst = NoDst
    /\ ret = NoRet

\* scan.bytes++ and scan.step(scan, c); reference keeps the scanner before
DoStep(c) ==
    /\ decoder.pc = "scanning"
    /\ decoder.scan.bytes < Len(arg.prefix) + MaxSteps
    /\ op' = "step"
    /\ LET r == step([decoder.scan EXCEPT !.bytes = @ + 1], c)
       IN  /\ decoder' = [pc |-> IF r.op = "panic" THEN "panicked" ELSE "scanning",
                          scan |-> r.s]
           /\ ret' = [kind |-> "opcode", opcode |-> r.op]
           /\ arg' = [arg EXCEPT !.byte = c, !.since = @ + 1,
                                 !.clean = @ /\ r.op # "scanError"]
    /\ reference' = Scanning(decoder.scan)
    /\ UNCHANGED <<unicode, data, dst>>

\* scan.eof()
DoEof ==
    /\ decoder.pc = "scanning"
    /\ op' = "eof"
    /\ LET r == eof(decoder.scan)
       IN  /\ decoder' = Scanning(r.s)
           /\ ret' = [kind |-> "opcode", opcode |-> r.op]
    /\ arg' = [arg EXCEPT !.byte = "", !.clean = FALSE]
    /\ reference' = Scanning(decoder.scan)
    /\ UNCHANGED <<unicode, data, dst>>

\* scan.reset()
DoReset ==
    /\ decoder.pc = "scanning"
    /\ op' = "reset"
    /\ decoder' = Scanning(reset(decoder.scan))
    /\ ret' = NoRet
    /\ arg' = [arg EXCEPT !.byte = "", !.since = 0, !.clean = TRUE,
                          !.pristine = decoder.scan.string = 0]
    /\ reference' = Scanning(decoder.scan)
    /\ UNCHANGED <<unicode, data, dst>>

NextScanner ==
    \/ \E c \in StepAlphabet : DoStep(c)
    \/ DoEof
    \/ DoReset

SpecScanner == InitScanner /\ [][NextScanner]_vars

\* the last operation was a step or an eof() on a scanner with its error set,
\* and returned the error opcode with the error unchanged
StaysInError ==
    /\ decoder.pc = "scanning"
    /\ ret.opcode = "scanError"
    /\ decoder.scan.err = reference.scan.err

\* C15 (as claimed): once the scanner's sticky error has been set by any
\* operation (a step on an illegal byte, an over-long string length, or eof()
\* on incomplete input), every later step returns the error opcode for every
\* byte and every later eof() returns error, with the recorded error
\* unchanged, until reset() is called.
C15_ErrorLatches ==
    (op \in {"step", "eof"} /\ reference.scan.err # NoErr) => StaysInError

\* What holds: an error set by a step (an illegal byte or an over-long
\* string length) puts the scanner in stateError, where every step and every
\* eof() returns the error opcode and leaves the error unchanged.
C15_StepErrorLatches ==
    (op \in {"step", "eof"} /\ reference.scan.step = "stateError") => StaysInError

\* What holds: whatever set the error, every later eof() returns the error
\* opcode and leaves the error unchanged, and reset() clears it.
C15_ErrorSticksForEof ==
    /\ (op = "eof" /\ reference.scan.err # NoErr) => StaysInError
    /\ op = "reset" => (decoder.scan.err = NoErr /\ decoder.scan.step = "sv")

-----------------------------------------------------------------------------
(* eof() *)

\* eof() returned the error opcode: the error already recorded is kept, and
\* when there was none it is 'unexpected end of input' at the bytes stepped
EofReportsError ==
    /\ ret.opcode = "scanError"
    /\ decoder.scan.err =
          IF reference.scan.err # NoErr THEN reference.scan.err
          ELSE SyntaxError(<<"unexpected end of Bencode input">>, reference.scan.bytes)

\* C16 (as claimed): eof() returns the end opcode exactly when the frame
\* stack is empty and the sticky error is unset; in every other state it
\* returns the error opcode, setting the error to 'unexpected end of input'
\* if no error was already recorded.
C16_EndIffStackEmpty ==
    op = "eof" =>
        IF reference.scan.parseState = <<>> /\ reference.scan.err = NoErr
        THEN ret.opcode = "scanEnd" /\ decoder.scan = reference.scan
        ELSE EofReportsError

\* C16 (amended): eof() returns the end opcode exactly when the end flag is
\* set (a complete top-level value has been scanned since the last reset;
\* the frame stack is then empty) and the sticky error is unset; in every
\* other state, a scanner with an empty frame stack that has completed no
\* value included, it returns the error opcode, setting the error to
\* 'unexpected end of input' if no error was already recorded.
C16_EndIffValueComplete ==
    /\ decoder.scan.endTop => decoder.scan.parseState = <<>>
    /\ op = "eof" =>
          IF reference.scan.endTop /\ reference.scan.err = NoErr
          THEN ret.opcode = "scanEnd" /\ decoder.scan = reference.scan
          ELSE EofReportsError

\* eof() on a reset scanner that has stepped over no byte: the frame stack is
\* empty, no value is complete, and the result is the error opcode
C16_Witness ==
    /\ op = "eof"
    /\ arg.since = 0
    /\ reference.scan.parseState = <<>>
    /\ reference.scan.err = NoErr
    /\ ~reference.scan.endTop
    /\ ret.opcode = "scanError"
    /\ decoder.scan.err.kind = "SyntaxError"

-----------------------------------------------------------------------------
(* The frame stack *)

CompositeFrames == {"parseDictionaryKey", "parseDictionaryValue", "parseListValue"}

\* the frame stack of the scanner is well formed, and the last step did not
\* end in a panic
WellFormedStack ==
    LET s == decoder.scan
        n == Len(s.parseState)
    IN  /\ decoder.pc # "panicked"
        /\ (n = 0) <=> (arg.since = 0 \/ s.endTop)
        /\ \A k \in 1..(n - 1) : s.parseState[k] \in CompositeFrames
        /\ (s.string # 0) <=> (n > 0 /\ s.parseState[n] = "parseString")

\* C20 (as claimed): in every state reached by stepping a freshly reset
\* scanner over any byte sequence without error, the frame stack is well
\* formed: it is empty exactly when no byte has been consumed yet or a
\* top-level value has just been completed (end flag set); integer,
\* string-length and string-body frames occur only at the top of the stack;
\* and the remaining-byte counter is non-zero exactly when the top frame is
\* string-body, so the scanner's panics are unreachable.
C20_StackWellFormed == arg.clean => WellFormedStack

\* What holds: C20 for a scanner whose remaining-byte counter was zero when
\* reset() was called, as it is for a new scanner and after a complete value.
C20_StackWellFormedFromZeroCounter == (arg.clean /\ arg.pristine) => WellFormedStack
-----------------------------------------------------------------------------
(* reset() on a scanner in use *)

MaxAfter == 3

ResetAlphabet == {"0", "1", ":", "i", "e", "l"}

\* the byte sequences stepped over after reset()
AfterReset == ByteSeqs(ResetAlphabet, MaxAfter)

\* the opcodes of the steps of s over bs, each counted as its callers count
\* it, followed by the result of eof(); a panic ends the sequence
RECURSIVE OpcodesOver(_, _)
OpcodesOver(s, bs) ==
    IF bs = <<>> THEN <<eof(s).op>>
    ELSE With(step([s EXCEPT !.bytes = @ + 1], bs[1]), LAMBDA r :
           IF r.op = "panic" THEN <<"panic">>
           ELSE <<r.op>> \o OpcodesOver(r.s, Tail(bs)))

\* the results of the scanner are those of a newly constructed scanner after
\* its first reset()
AsNewScanner ==
    \A bs \in AfterReset :
        OpcodesOver(decoder.scan, bs) = OpcodesOver(reset(ZeroScanner), bs)

\* C22 (as claimed): reset() called in any scanner state (mid-string,
\* mid-integer, inside nested composites, after an error, or after a
\* completed value) yields a scanner whose opcode for every subsequent byte
\* sequence, and whose eof() result, equal those of a newly constructed
\* scanner: no state of the abandoned scan influences later results or
\* causes a fault.
C22_ResetIsFresh == op = "reset" => AsNewScanner

\* What holds: C22 for a reset() called when the remaining-byte counter is
\* zero, that is anywhere but inside the body of a string; then only the
\* count of bytes stepped over survives reset().
C22_ResetIsFreshButMidString ==
    (op = "reset" /\ arg.pristine) =>
        /\ AsNewScanner
        /\ [decoder.scan EXCEPT !.bytes = 0] = reset(ZeroScanner)

\* reset() inside the body of a string keeps the counter, and the length
\* delimiter of the next string then ends in a panic
C22_MidStringFaults ==
    (op = "reset" /\ ~arg.pristine) =>
        /\ decoder.scan.string # 0
        /\ OpcodesOver(decoder.scan, <<"1", ":">>) = <<"scanBeginString", "panic">>
-----------------------------------------------------------------------------
(* Valid and the bytes after the first value *)

\* the scanner of checkValid before byte j of bs
ScannerBefore(bs, j) == StepsOver(reset(ZeroScanner), SubSeq(bs, 1, j - 1))

\* at every byte of bs from j on the scanner has its end flag set, and its
\* step returns the end opcode and leaves it as it was
EndFrom(bs, j) ==
    \A k \in j..Len(bs) :
        With(ScannerBefore(bs, k), LAMBDA s :
            /\ s.endTop
            /\ s.err = NoErr
            /\ \A c \in ValidAlphabet \cup {bs[k]} :
                  step([s EXCEPT !.bytes = @ + 1], c)
                      = [s |-> [s EXCEPT !.bytes = @ + 1], op |-> "scanEnd"])

\* every proper prefix of bs is rejected
ProperPrefixesRejected(bs) == \A n \in 0..(Len(bs) - 1) : ~Valid(SubSeq(bs, 1, n))

\* C23: Valid(data) is true exactly when some prefix of data is one
\* complete well-formed value: after the first top-level value completes,
\* the scanner returns the end opcode for every further byte whatever its
\* value, never an error, and leaves its state unchanged, so no trailing
\* bytes can change the result to false; and every proper prefix of a
\* single complete value is rejected.
C23_ValidIffValueThenAnything ==
    op = "Valid" =>
        /\ ret.ok <=> WellFormedPrefix(data)
        /\ WellFormedPrefix(data) => EndFrom(data, GrammarValueEnd(data, 1))
        /\ ret.ok => \A c \in ValidAlphabet : Valid(data \o <<c>>)
        /\ WellFormed(data) => ProperPrefixesRejected(data)

\* Valid has accepted a value followed by bytes that begin no value
C23_Witness ==
    /\ op = "Valid"
    /\ ret.ok
    /\ GrammarValueEnd(data, 1) = Len(data) - 1
    /\ data[Len(data) - 1] = "a"
    /\ data[Len(data)] = "-"
-----------------------------------------------------------------------------
(* typeFields over record types with embedded records *)

PlainX == StructField(<<"X">>, <<>>, Basic("String"), FALSE, TRUE)

PlainY == StructField(<<"Y">>, <<>>, Basic("String"), FALSE, TRUE)

\* Z string `bencode:"X"`
TaggedX == StructField(<<"Z">>, <<"X">>, Basic("String"), FALSE, TRUE)

\* W string `bencode:"X"`
TaggedX2 == StructField(<<"W">>, <<"X">>, Basic("String"), FALSE, TRUE)

\* X string `bencode:"-"`
DashX == StructField(<<"X">>, <<"-">>, Basic("String"), FALSE, TRUE)

\* X string `bencode:"\U00011F04"`: KAWI LETTER A, a letter from Unicode 15.0.0 on,
\* so a valid annotation for some toolchains only
KawiX == StructField(<<"X">>, <<"xF0", "x91", "xBC", "x84">>, Basic("String"), FALSE, TRUE)

\* an embedded record without annotation
Embedded(t) == StructField(<<t.name>>, <<>>, t, TRUE, TRUE)

LeafOwn == { <<PlainX>>, <<TaggedX>>, <<PlainX, TaggedX>>, <<TaggedX, TaggedX2>>, <<PlainY>> }

MidOwn == { <<>>, <<PlainX>>, <<TaggedX>>, <<DashX>>, <<PlainY>> }

RootOwn == { <<>>, <<PlainX>>, <<KawiX>> }

\* type E struct{ own }
LeafTypes == { StructOf("E", own) : own \in LeafOwn }

\* type C struct{ own; E } or struct{ own }
InnerTypes(e) ==
    { StructOf("C", own \o emb) : own \in MidOwn, emb \in { <<>>, <<Embedded(e)>> } }

\* type A struct{ own }, struct{ own; E } or struct{ own; C }
MidTypes(name, e, c) ==
    { StructOf(name, own \o emb) :
        own \in MidOwn, emb \in { <<>>, <<Embedded(e)>>, <<Embedded(c)>> } }

\* type T struct{ own; A; B }
RootType(own, a, b) == StructOf("T", own \o <<Embedded(a), Embedded(b)>>)

InitFields ==
    /\ unicode \in UnicodeVersions
    /\ op = "none"
    /\ \E e \in LeafTypes :
          \E c \in InnerTypes(e) :
             \E own \in RootOwn, a \in MidTypes("A", e, c), b \in MidTypes("B", e, c) :
                arg = [form |-> "type", t |-> RootType(own, a, b)]
    /\ data = <<>>
    /\ dst = NoDst
    /\ ret = NoRet
    /\ decoder = NoDecoder
    /\ reference = NoDecoder

\* typeFields(t)
DoTypeFields ==
    /\ op = "none"
    /\ arg.form = "type"
    /\ op' = "typeFields"
    /\ ret' = [kind |-> "fields", fields |-> typeFields(arg.t)]
    /\ UNCHANGED <<unicode, arg, data, dst, decoder, reference>>

NextFields == DoTypeFields

SpecFields == InitFields /\ [][NextFields]_vars

\* the serialized name of a declared field and whether an annotation gave it
SerializedName(sf) ==
    LET p == parseTag(sf.Tag)
    IN  IF isValidTag(p.name, unicode) THEN [name |-> p.name, tag |-> TRUE]
        ELSE [name |-> sf.Name, tag |-> FALSE]

\* the candidate fields of t: every exported field not excluded, of t or
\* of a record embedded in it without annotation, with the path to it
RECURSIVE Candidates(_, _)
Candidates(t, index) ==
    UNION { LET sf == t.fields[i]
                n == SerializedName(sf)
            IN  IF sf.Tag = <<"-">> \/ (~sf.Exported /\ ~sf.Anonymous) THEN {}
                ELSE IF sf.Anonymous /\ ~n.tag /\ sf.Type.kind = "Struct"
                THEN Candidates(sf.Type, Append(index, i - 1))
                ELSE { [name |-> n.name, tag |-> n.tag,
                        index |-> Append(index, i - 1), typ |-> sf.Type] } :
            i \in 1..Len(t.fields) }

\* the candidates with that name at the shallowest embedding depth
Shallowest(cands, name) ==
    { c \in cands : /\ c.name = name
                    /\ \A o \in cands : o.name = name => Len(c.index) <= Len(o.index) }

\* the winners among them: the only candidate, or the only annotated one
Winners(S) ==
    IF Cardinality(S) = 1 THEN S
    ELSE IF Cardinality({ c \in S : c.tag }) = 1 THEN { c \in S : c.tag }
    ELSE {}

Entry(f) == [name |-> f.name, tag |-> f.tag, index |-> f.index, typ |-> f.typ]

ResolvedAsClaimed(t, table) ==
    LET cands == Candidates(t, <<>>)
    IN  /\ \A c \in cands :
              (\E i \in 1..Len(table) : table[i].name = c.name)
                  <=> Winners(Shallowest(cands, c.name)) # {}
        /\ \A i \in 1..Len(table) :
              Entry(table[i]) \in Winners(Shallowest(cands, table[i].name))
        /\ \A i, j \in 1..Len(table) : table[i].name = table[j].name => i = j

\* C17 (as claimed): in the resolved field table of a record type a
\* serialized name is present if and only if, among the candidate fields
\* with that name at the shallowest embedding depth, there is exactly one
\* candidate or exactly one annotated candidate; the entry is then that
\* candidate, and otherwise the name is absent, so names are unique.
C17_DominantField ==
    op = "typeFields" => ResolvedAsClaimed(arg.t, ret.fields)

\* the records embedded in t without annotation, at any depth, with the
\* path to each
RECURSIVE Embeddings(_, _)
Embeddings(t, index) ==
    UNION { LET sf == t.fields[i]
            IN  IF /\ sf.Anonymous
                   /\ sf.Tag # <<"-">>
                   /\ ~SerializedName(sf).tag
                   /\ sf.Type.kind = "Struct"
                THEN { [typ |-> sf.Type, index |-> Append(index, i - 1)] }
                     \cup Embeddings(sf.Type, Append(index, i - 1))
                ELSE {} :
            i \in 1..Len(t.fields) }

\* the records embedded in t by more than one path
Repeated(t) ==
    { x.typ : x \in { y \in Embeddings(t, <<>>) :
                        \E z \in Embeddings(t, <<>>) : z.typ = y.typ /\ z.index # y.index } }

\* a record embedded by more than one path embeds a record itself
RepeatedEmbeds(t) == \E r \in Repeated(t) : Embeddings(r, <<>>) # {}

\* What holds: C17 for the record types in which no record embedded by more
\* than one path embeds a record itself.
C17_DominantFieldButRepeatedEmbeds ==
    (op = "typeFields" /\ ~RepeatedEmbeds(arg.t)) => ResolvedAsClaimed(arg.t, ret.fields)

\* the table is in the order of the index paths
C17_TableInIndexOrder ==
    op = "typeFields" =>
        \A i, j \in 1..Len(ret.fields) :
            i < j => byIndexLess(ret.fields[i], ret.fields[j])
-----------------------------------------------------------------------------
(* Concurrent calls of cachedTypeFields on the shared fieldCache *)

MaxCallers == 3

Callers == 1..MaxCallers

CachedTypes ==
    { InnerRecord,
      StructOf("T", << Embedded(StructOf("A", <<PlainX, PlainY>>)),
                       Embedded(StructOf("B", <<PlainX>>)) >>) }

\* sync.Map.Load
Load(m, key) ==
    IF key \in DOMAIN m THEN [f |-> m[key], ok |-> TRUE] ELSE [ok |-> FALSE]

\* an unconditional store in place of LoadOrStore
StoreAlways(m, key, x) ==
    [m |-> [k \in DOMAIN m \cup {key} |-> IF k = key THEN x ELSE m[k]],
     actual |-> x, loaded |-> FALSE]

\* sync.Map.LoadOrStore
LoadOrStore(m, key, x) ==
    IF key \in DOMAIN m THEN [m |-> m, actual |-> m[key], loaded |-> TRUE]
    ELSE [m |-> [k \in DOMAIN m \cup {key} |-> IF k = key THEN x ELSE m[k]],
          actual |-> x, loaded |-> FALSE]

\* decoder holds the callers, each at a line of cachedTypeFields; reference
\* holds fieldCache and how many tables were stored for each type
InitCache ==
    /\ unicode \in UnicodeVersions
    /\ op = "none"
    /\ \E ts \in [Callers -> CachedTypes] :
          /\ arg = [form |-> "callers", types |-> ts]
          /\ decoder = [pc |-> "callers",
                        callers |-> [p \in Callers |->
                                        [pc |-> "Load", t |-> ts[p], missed |-> FALSE]]]
    /\ data = <<>>
    /\ dst = NoDst
    /\ ret = NoRet
    /\ reference = [pc |-> "fieldCache", m |-> <<>>, stores |-> [t \in CachedTypes |-> 0]]

\* if f, ok := fieldCache.Load(t); ok { return f.([]field) }
CacheLoad(p) ==
    /\ decoder.callers[p].pc = "Load"
    /\ LET r == Load(reference.m, decoder.callers[p].t)
       IN  decoder' = [decoder EXCEPT !.callers[p] =
                          IF r.ok
                          THEN [pc |-> "returned", t |-> @.t, missed |-> FALSE,
                                fields |-> r.f]
                          ELSE [pc |-> "typeFields", t |-> @.t, missed |-> TRUE]]
    /\ op' = "Load"
    /\ UNCHANGED <<unicode, arg, data, dst, ret, reference>>

\* the argument typeFields(t) of LoadOrStore, computed by the caller alone
CacheTypeFields(p) ==
    /\ decoder.callers[p].pc = "typeFields"
    /\ decoder' = [decoder EXCEPT !.callers[p] =
                      [pc |-> "LoadOrStore", t |-> @.t, missed |-> TRUE,
                       built |-> typeFields(@.t)]]
    /\ op' = "typeFields"
    /\ UNCHANGED <<unicode, arg, data, dst, ret, reference>>

\* f, _ := fieldCache.LoadOrStore(t, typeFields(t)); return f.([]field)
CacheLoadOrStore(p) ==
    /\ decoder.callers[p].pc = "LoadOrStore"
    /\ LET c == decoder.callers[p]
           r == LoadOrStore(reference.m, c.t, c.built)
       IN  /\ decoder' = [decoder EXCEPT !.callers[p] =
                             [pc |-> "returned", t |-> c.t, missed |-> TRUE,
                              fields |-> r.actual]]
           /\ reference' = [reference EXCEPT
                               !.m = r.m,
                               !.stores[c.t] = IF r.loaded THEN @ ELSE @ + 1]
    /\ op' = "LoadOrStore"
    /\ UNCHANGED <<unicode, arg, data, dst, ret>>

NextCache ==
    \E p \in Callers : CacheLoad(p) \/ CacheTypeFields(p) \/ CacheLoadOrStore(p)

SpecCache == InitCache /\ [][NextCache]_vars

HasReturned(p) == decoder.callers[p].pc = "returned"

\* C18: under any interleaving of concurrent cachedTypeFields calls for the
\* same record type, also when several callers miss the cache and compute
\* the table at once, every caller receives a fully built field table, all
\* callers receive tables of identical contents and ordering, and at most
\* one table is ever stored for that type.
C18_CacheConsistent ==
    /\ \A p \in Callers :
          HasReturned(p) => decoder.callers[p].fields = typeFields(decoder.callers[p].t)
    /\ \A p, q \in Callers :
          (HasReturned(p) /\ HasReturned(q) /\ decoder.callers[p].t = decoder.callers[q].t)
              => decoder.callers[p].fields = decoder.callers[q].fields
    /\ \A t \in CachedTypes : reference.stores[t] <= 1

\* two callers of one type missed the cache, both computed the table, and
\* all callers have returned
C18_Witness ==
    /\ \A p \in Callers : HasReturned(p)
    /\ \E p, q \in Callers :
          /\ p # q
          /\ decoder.callers[p].t = decoder.callers[q].t
          /\ decoder.callers[p].missed
          /\ decoder.callers[q].missed
          /\ decoder.callers[p].fields # <<>>
-----------------------------------------------------------------------------
(* Records inside a list, a mapping and a record field, followed by values  *)
(* that do not fit                                                          *)

MaxRecords == 3

\* type Outer struct{ L []Inner }
OuterRecord ==
    StructOf("Outer", << StructField(<<"L">>, <<>>, SliceOf(InnerRecord), FALSE, TRUE) >>)

\* the elements: the records de, d1:X1:xe, d1:Y1:xe (a key of no field) and
\* d1:Xi5ee (a number on the text field), and the values i5e and 1:x that
\* are no record
ContextElements == {"empty", "bound", "unknown", "inside", "number", "text"}

RecordElements == {"empty", "bound", "unknown", "inside"}

WireElement(e) ==
    CASE e = "empty" -> WireDict(<<>>)
      [] e = "bound" -> WireDict(<< <<<<"X">>, WireString(<<"x">>)>> >>)
      [] e = "unknown" -> WireDict(<< <<<<"Y">>, WireString(<<"x">>)>> >>)
      [] e = "inside" -> WireDict(<< <<<<"X">>, WireInt(<<"5">>)>> >>)
      [] e = "number" -> WireInt(<<"5">>)
      [] e = "text" -> WireString(<<"x">>)

ContextShapes == {"list", "map", "field"}

ContextKeys == << <<"a">>, <<"b">>, <<"c">> >>

\* the destination of a shape: a nil []Inner, a nil map[string]Inner, an Outer
ContextDest(shape) ==
    CASE shape = "list" -> Dest("ok", Val(SliceOf(InnerRecord), Zero(SliceOf(InnerRecord))))
      [] shape = "map" ->
           Dest("ok", Val(MapOf(Basic("String"), InnerRecord),
                          Zero(MapOf(Basic("String"), InnerRecord))))
      [] shape = "field" -> Dest("ok", Val(OuterRecord, Zero(OuterRecord)))

WireContext(shape, elems) ==
    CASE shape = "list" -> WireList([i \in 1..Len(elems) |-> WireElement(elems[i])])
      [] shape = "map" ->
           WireDict([i \in 1..Len(elems) |-> <<ContextKeys[i], WireElement(elems[i])>>])
      [] shape = "field" ->
           WireDict(<< << <<"L">>,
                          WireList([i \in 1..Len(elems) |-> WireElement(elems[i])]) >> >>)

InitContext ==
    /\ unicode \in UnicodeVersions
    /\ op = "none"
    /\ \E shape \in ContextShapes, elems \in ByteSeqs(ContextElements, MaxRecords) :
          /\ arg = [form |-> "context", shape |-> shape, elems |-> elems]
          /\ data = WireContext(shape, elems)
          /\ dst = ContextDest(shape)
    /\ ret = NoRet
    /\ decoder = NoDecoder
    /\ reference = NoDecoder

NextContext == DoBind

SpecContext == InitContext /\ [][NextContext]_vars

\* the elements that do not fit: a value that is no record, or the record
\* with a number on its text field
ContextMisfits == { i \in 1..Len(arg.elems) : arg.elems[i] \in {"inside", "number", "text"} }

FirstContextMisfit == FirstOf(ContextMisfits)

\* the error context in force where the elements stand: none in a list or a
\* mapping at the top, the field L of Outer in the list of that field
EnclosingContext ==
    IF arg.shape = "field" THEN [Struct |-> "Outer", Field |-> <<"L">>]
    ELSE [Struct |-> <<>>, Field |-> <<>>]

\* the first value that does not fit stands outside the records, after one
AfterRecord ==
    /\ ContextMisfits # {}
    /\ arg.elems[FirstContextMisfit] \in {"number", "text"}
    /\ \E j \in 1..(FirstContextMisfit - 1) : arg.elems[j] \in RecordElements

AttributedToEnclosing ==
    /\ ~ret.panic
    /\ ret.err.kind = "UnmarshalTypeError"
    /\ ret.err.Type = InnerRecord
    /\ ret.err.Struct = EnclosingContext.Struct
    /\ ret.err.Field = EnclosingContext.Field

\* C21 (as claimed): when the binder finishes a record (reaches its
\* end-dict), the error context (enclosing record type and field name) is
\* restored to what it was before that record began, so a type-mismatch
\* error recorded later for a value outside that record (the next element
\* of an enclosing list or mapping) is not attributed to one of that
\* record's fields.
C21_ContextRestored ==
    (op = "Unmarshal" /\ AfterRecord) => AttributedToEnclosing

\* a record in which a key selected a field precedes the first misfit
AfterBoundField ==
    \E j \in 1..(FirstContextMisfit - 1) : arg.elems[j] = "bound"

\* What holds: C21 in a mapping, where the loop over the pairs of the
\* mapping restores the context after each pair, and in a list after
\* records in which no key selected a field.
C21_ContextRestoredButAfterBoundField ==
    (op = "Unmarshal" /\ AfterRecord /\ (arg.shape = "map" \/ ~AfterBoundField))
        => AttributedToEnclosing

\* in a list, the error of a value after a record in which a key selected
\* a field is attributed to that field
C21_ListKeepsFieldOfRecord ==
    (op = "Unmarshal" /\ AfterRecord /\ arg.shape # "map" /\ AfterBoundField) =>
        /\ ~ret.panic
        /\ ret.err.kind = "UnmarshalTypeError"
        /\ ret.err.Type = InnerRecord
        /\ ret.err.Struct = "Inner"
        /\ ret.err.Field = <<"X">>

\* a misfit inside a record is attributed to the field of that record
C21_InsideAttributedToField ==
    (op = "Unmarshal" /\ ContextMisfits # {} /\ arg.elems[FirstContextMisfit] = "inside") =>
        /\ ~ret.panic
        /\ ret.err.kind = "UnmarshalTypeError"
        /\ ret.err.Struct = "Inner"
        /\ ret.err.Field = <<"X">>
=============================================================================
